---- MODULE Spec2Model ----
(***************************************************************************)
(* Model of the StoryBox controller (src/architecture/main.py) and of the  *)
(* scripted LED timeline selection (src/2architecture/services/            *)
(* led_patterns.py).                                                       *)
(*                                                                         *)
(* The controller has no lock: every event source calls its handler on its *)
(* own thread.  Each thread has a program counter; a handler is cut at the *)
(* places where the code blocks (sleep, HTTP request) or where it has      *)
(* decided a branch from the state it read and has not yet acted on it.    *)
(***************************************************************************)
EXTENDS Integers, Sequences, FiniteSets, TLC

\* ------------------------------------------------------------------------
\* Bounds
\* ------------------------------------------------------------------------
\* number of hardware / environment events delivered in one behaviour
MaxEvents == 5

\* ------------------------------------------------------------------------
\* Domain
\* ------------------------------------------------------------------------
StoryBoxState ==
    {"BOOTING", "WAITING_NETWORK", "IDLE_READY", "PREPARING_STORY",
     "REQUESTING_STORY", "PLAYING_STORY", "PAUSED", "CONFIRM_STOP"}

Readers == {"reader1", "reader2", "reader3", "reader4"}

\* the figurines placed on the readers (tag ids)
Tags == {1, 2}

\* an unset optional field
None == "None"

\* an empty reader slot (the reader manager never reports tag id 0: `if cid`)
NoTag == 0

\* StoryLedSegment.duration is None, LedPattern._duration is None
NoDuration == -1

Modes == {"short", "medium", "long"}

\* StoryBoxController.__init__: self._reader_to_group
reader_to_group ==
    [r \in Readers |->
        CASE r = "reader1" -> 2
          [] r = "reader2" -> 3
          [] r = "reader3" -> 1
          [] r = "reader4" -> 0]

\* StorySession(): the dataclass defaults
StorySession ==
    [figure_rfid_uids |-> <<>>,
     duration_mode    |-> "medium",
     story_audio_path |-> None,
     led_pattern_path |-> None]

\* main(): skip_states handed to the NetworkMonitor
skip_states == {"PLAYING_STORY", "PAUSED", "CONFIRM_STOP"}

\* DurationSelector.read_mode: the two switch inputs, LOW = 0, HIGH = 1
SelectorPins == {<<0, 1>>, <<1, 1>>, <<1, 0>>, <<0, 0>>}

read_mode(sampled) ==
    IF sampled[1] = 0 /\ sampled[2] = 1 THEN "short"
    ELSE IF sampled[1] = 1 /\ sampled[2] = 1 THEN "medium"
    ELSE IF sampled[1] = 1 /\ sampled[2] = 0 THEN "long"
    ELSE "unknown"

\* the threads that call into the controller
Workers == {"worker1", "worker2"}

Threads == {"rfid", "button", "timer", "monitor", "watcher"} \cup Workers

\* ------------------------------------------------------------------------
\* State
\* ------------------------------------------------------------------------
VARIABLES
    state,              \* StoryBoxController.state
    session,            \* StoryBoxController.session
    reader_active_tags, \* StoryBoxController._reader_active_tags
    story_file,         \* StoryBoxController.story_file is set (a default asset exists)
    pins,               \* the selector's two inputs as sampled by the last read_mode()
    last_mode,          \* DurationSelector.start.run: last_mode ("unset" before the first read)
    last_status,        \* NetworkMonitor._last_status
    is_playing,         \* AudioPlayer._is_playing
    paused,             \* AudioPlayer._paused
    background,         \* LedController._background_pattern (its kind)
    event,              \* LedController._event_pattern as last set by led_event() (its kind)
    prompt,             \* prompt handed to SystemAudioManager.play_event by the last step
    pc,                 \* position of every thread
    snap,               \* _update_preparing_feedback: active_tag_ids of the thread running it
    events,             \* hardware / environment events still to be delivered
    last_event,         \* the hardware / environment event the last step delivered
    loading_stop_event, \* StoryBoxController.loading_stop_event is set
    loops,              \* _play_loading_loop threads that run
    segments,           \* ScriptedTimelinePattern._segments
    supplied,           \* what the time supplier returned to the last render
    segment_index,      \* render: segment_index (0 for None)
    fallback,           \* ScriptedTimelinePattern._fallback_pattern is set
    active_segment_index, \* ScriptedTimelinePattern._active_segment_index (0 for None)
    frame_source,       \* what the last render returned: a segment's pattern, the fallback, black
    segment_elapsed,    \* the elapsed value the last render passed to the segment's pattern
    event_duration,     \* LedPattern._duration of the event pattern
    event_elapsed,      \* LedPattern.elapsed() of the event pattern, in frame intervals
    strip_active,       \* LedController._strip_active
    frame_cmd,          \* what the last frame of _run_loop sent to the driver
    frame_of,           \* the pattern slot whose colours the last frame sent
    colors,             \* _run_loop: colors of the last frame: valid, failed, or none
    idle_run,           \* consecutive frames, up to now, that found no pattern at all
    idle_offs,          \* off commands the loop sent during these frames
    frames,             \* frames the render loop has still to run
    led_calls,          \* calls of the LedController's methods still to come
    base_lengths,       \* GroupCyclePattern._base_lengths
    pixel_count,        \* LedPattern._pixel_count
    groups,             \* GroupCyclePattern._groups: the (start, stop) ranges
    playback_token,     \* AudioPlayer._playback_token
    music,              \* pygame.mixer.music: idle, playing, paused or ended
    watcher,            \* per token: where its _wait_for_story_end thread is
    sync,               \* per token: where its _sync_led_patterns_with_audio thread is
    finished,           \* per token: calls of the finished callback
    led_owner,          \* token of the playback the last lighting command came from
    plays,              \* calls of play_story still to come
    player_calls,       \* calls of pause_story / resume_story / stop_story still to come
    killed,             \* producing threads ended by an exception
    raised_in,          \* producing threads one of whose callbacks has raised
    resumed,            \* producing threads that called a callback after one raised
    last_site,          \* the call site of the last callback
    deliveries,         \* callbacks still to be called
    color_data,         \* _parse_color: data, the "color" value of a timeline entry
    color,              \* _parse_color: what it returned
    document,           \* leds_timing.json as load_story_led_timeline finds it
    loaded,             \* what the last load_story_led_timeline returned
    earlier,            \* what the load before the last one returned
    load_raised,        \* the last load_story_led_timeline raised
    loads,              \* calls of load_story_led_timeline up to now
    _current_state,     \* LedController._current_state (2architecture)
    _story_timeline,    \* LedController._story_timeline
    _state_pattern,     \* LedController._state_pattern: scripted, or its pattern id
    _lock,              \* LedController._lock: the thread that holds it, or free
    at,                 \* where the render loop and every caller of the LedController are
    method,             \* the LedController method every caller runs
    _background_pattern, \* LedController._background_pattern is set
    _event_pattern,     \* LedController._event_pattern is set
    selected,           \* _run_loop: active_pattern (event, background or none)
    touched,            \* the slot access of the last step: by whom, who held the lock
    output,             \* the driver call of the last step: by whom, who held the lock
    lock_calls,         \* calls of LedController methods still to come
    variant,            \* the controller that runs: architecture or 2architecture
    api_client,         \* StoryBoxController.api_client is set
    _tag_names,         \* StoryBoxController._tag_names (2architecture): tag -> cached or not
    queried,            \* per tag: calls of api_client.get_character up to now
    known,              \* the tags a call of get_character has succeeded for
    resolved,           \* the last resolution: its tag and where its result came from
    lookups,            \* resolutions still to come
    volume,             \* AudioOutput.volume, in hundredths
    rotated,            \* the last on_rotary_rotate: its delta, the volume it found
    _stop_event,        \* LedController._stop_event is set
    _strip_active,      \* LedController._strip_active, as the loop of this part keeps it
    patterned,          \* a pattern is in one of the slots
    loop_at,            \* where the render thread is in _run_loop
    pending,            \* what the frame in flight is about to send to the driver
    shutdown_at,        \* where the caller of shutdown() is
    driver,             \* the commands the LED driver received, in order
    returned_at,        \* how many commands the driver had received when shutdown() returned
    loop_frames,        \* frames the render thread may still start
    pin_level,          \* the play/pause button's input: LOW while it is held down
    last_state,         \* PlayPauseButton.start.run: last_state
    poll_at,            \* where the polling thread is in its handling of an edge
    timer_at,           \* where the long-press timer's thread is
    _long_press_triggered,  \* PlayPauseButton._long_press_triggered
    short_presses,      \* calls of on_short_press since the button went down
    long_presses,       \* calls of on_long_press since the button went down
    presses             \* presses of the button still to come

loading_vars == <<loading_stop_event, loops>>

controller_vars ==
    <<state, session, reader_active_tags, story_file, pins, last_mode,
      last_status, is_playing, paused, background, event, prompt, pc,
      snap, events, last_event, loading_vars>>

timeline_vars ==
    <<segments, supplied, segment_index, fallback, active_segment_index, frame_source,
      segment_elapsed>>

lighting_vars ==
    <<event_duration, event_elapsed, strip_active, frame_cmd, frame_of,
      colors, idle_run, idle_offs, frames, led_calls>>

\* the state of the parts the controller specification leaves alone
group_vars == <<base_lengths, pixel_count, groups>>

player_vars ==
    <<playback_token, music, watcher, sync, finished, led_owner, plays, player_calls>>

source_vars == <<killed, raised_in, resumed, last_site, deliveries>>

color_vars == <<color_data, color>>

\* the parts that are checked on their own, each under its own specification
loader_vars ==
    <<document, loaded, earlier, load_raised, loads, _current_state,
      _story_timeline, _state_pattern>>

lock_vars ==
    <<_lock, at, method, _background_pattern, _event_pattern, selected,
      touched, output, lock_calls>>

character_vars == <<variant, api_client, _tag_names, queried, known, resolved, lookups>>

volume_vars == <<volume, rotated>>

shutdown_vars ==
    <<_stop_event, _strip_active, patterned, loop_at, pending, shutdown_at, driver,
      returned_at, loop_frames>>

button_vars ==
    <<pin_level, last_state, poll_at, timer_at, _long_press_triggered,
      short_presses, long_presses, presses>>

\* the parts added last
more_vars == <<volume_vars, shutdown_vars, button_vars>>

rest_vars == <<color_vars, loader_vars, lock_vars, character_vars, more_vars>>

aside_vars ==
    <<timeline_vars, lighting_vars, group_vars, player_vars, source_vars, rest_vars>>

\* what the timeline, the render loop and the group layout each leave alone
beside_timeline ==
    <<controller_vars, lighting_vars, group_vars, player_vars, source_vars, rest_vars>>

beside_lighting == <<timeline_vars, group_vars, player_vars, source_vars, rest_vars>>

beside_groups ==
    <<controller_vars, timeline_vars, lighting_vars, player_vars, source_vars, rest_vars>>

beside_sources ==
    <<controller_vars, timeline_vars, lighting_vars, group_vars, player_vars, rest_vars>>

beside_player ==
    <<state, session, reader_active_tags, story_file, pins, last_mode, last_status,
      background, event, prompt, pc, snap, events, last_event, loading_vars,
      timeline_vars, lighting_vars, group_vars, source_vars, rest_vars>>

\* what the parts of rest_vars leave alone
former_vars ==
    <<controller_vars, timeline_vars, lighting_vars, group_vars, player_vars,
      source_vars, more_vars>>

\* what the parts of more_vars leave alone, the controller apart
beside_more ==
    <<timeline_vars, lighting_vars, group_vars, player_vars, source_vars,
      color_vars, loader_vars, lock_vars, character_vars>>

beside_volume == <<beside_more, shutdown_vars, button_vars>>

beside_shutdown == <<controller_vars, beside_more, volume_vars, button_vars>>

beside_button == <<controller_vars, beside_more, volume_vars, shutdown_vars>>

vars == <<controller_vars, aside_vars>>

ctl == <<state, session>>

player == <<is_playing, paused>>

leds == <<background, event>>

hw == <<pins, last_mode, last_status>>

polled == <<last_mode, last_status>>

\* ------------------------------------------------------------------------
\* Helpers
\* ------------------------------------------------------------------------
\* _play_system_prompt: while a story plays every prompt is replaced by "error"
_play_system_prompt(st, event_name) ==
    IF st = "PLAYING_STORY" THEN "error" ELSE event_name

\* the mutant of ordered_groups: the readers in dictionary order, not sorted by group
readers_in_id_order == <<"reader1", "reader2", "reader3", "reader4">>

\* _update_preparing_feedback: sorted(self._reader_to_group.items(), key=group)
ordered_groups ==
    [i \in 1..Cardinality(Readers) |->
        CHOOSE r \in Readers : reader_to_group[r] = i - 1]

RECURSIVE active_tag_ids_from(_, _)
active_tag_ids_from(slots, i) ==
    IF i > Len(ordered_groups) THEN <<>>
    ELSE LET tag_id == slots[ordered_groups[i]]
         IN  IF tag_id # NoTag
               THEN <<tag_id>> \o active_tag_ids_from(slots, i + 1)
               ELSE active_tag_ids_from(slots, i + 1)

\* _update_preparing_feedback: the loop that builds active_tag_ids
active_tag_ids(slots) == active_tag_ids_from(slots, 1)

Goto(t, label) == pc' = [pc EXCEPT ![t] = label]

\* a step that delivers one hardware / environment event
Deliver(name) ==
    /\ events > 0
    /\ events' = events - 1
    /\ last_event' = name
    /\ UNCHANGED <<loading_vars, aside_vars>>

\* a step a thread takes on its own; what it does to the loading loop is
\* said by the step
Own ==
    /\ UNCHANGED events
    /\ last_event' = "none"
    /\ UNCHANGED aside_vars

\* a step a thread takes on its own, the loading loop left alone
Internal ==
    /\ Own
    /\ UNCHANGED loading_vars

Quiet == prompt' = "none"

\* AudioPlayer.play_story: stop what plays, start the new file
play_story ==
    /\ is_playing' = TRUE
    /\ paused' = FALSE

\* AudioPlayer.pause_story
pause_story ==
    /\ paused' = (IF is_playing /\ ~paused THEN TRUE ELSE paused)
    /\ UNCHANGED is_playing

\* AudioPlayer.resume_story
resume_story_audio ==
    /\ paused' = (IF is_playing /\ paused THEN FALSE ELSE paused)
    /\ UNCHANGED is_playing

\* AudioPlayer.stop_story
stop_story ==
    /\ is_playing' = FALSE
    /\ paused' = FALSE

\* ------------------------------------------------------------------------
\* Init
\* ------------------------------------------------------------------------
ControllerInit ==
    /\ state = "BOOTING"
    /\ session = StorySession
    /\ reader_active_tags = [r \in Readers |-> NoTag]
    /\ story_file = TRUE
    /\ pins = <<1, 1>>
    /\ last_mode = "unset"
    /\ last_status = None
    /\ is_playing = FALSE
    /\ paused = FALSE
    /\ background = "none"
    /\ event = "none"
    /\ prompt = "none"
    /\ pc = [t \in Threads |-> "idle"]
    /\ snap = [t \in Threads |-> <<>>]
    /\ events = MaxEvents
    /\ last_event = "none"
    /\ loading_stop_event = FALSE
    /\ loops = 0

\* ------------------------------------------------------------------------
\* start_preparing and _update_preparing_feedback, run by whichever thread
\* reached them
\* ------------------------------------------------------------------------
\* start_preparing up to the call of _update_preparing_feedback
start_preparing(t, sampled) ==
    /\ pc[t] = "sp"
    /\ state' = "PREPARING_STORY"
    /\ background' = "group_cycle"
    /\ pins' = sampled
    /\ session' = [session EXCEPT !.duration_mode = read_mode(sampled)]
    /\ prompt' = _play_system_prompt("PREPARING_STORY", "preparing_story")
    /\ Goto(t, "upf")
    /\ Internal
    /\ UNCHANGED <<reader_active_tags, story_file, polled, player, event, snap>>

\* _update_preparing_feedback: the state check and the loop over the readers
\* (which blocks in _fetch_character_info for every held tag)
_update_preparing_feedback(t) ==
    /\ pc[t] = "upf"
    /\ IF state # "PREPARING_STORY"
         THEN /\ Goto(t, "idle")
              /\ UNCHANGED snap
         ELSE /\ snap' = [snap EXCEPT ![t] = active_tag_ids(reader_active_tags)]
              /\ Goto(t, "commit")
    /\ Internal
    /\ Quiet
    /\ UNCHANGED <<ctl, reader_active_tags, story_file, hw, player, leds>>

\* _update_preparing_feedback: self.session.figure_rfid_uids = active_tag_ids
commit_active_tags(t) ==
    /\ pc[t] = "commit"
    /\ session' = [session EXCEPT !.figure_rfid_uids = snap[t]]
    /\ snap' = [snap EXCEPT ![t] = <<>>]
    /\ Goto(t, "idle")
    /\ Internal
    /\ Quiet
    /\ UNCHANGED <<state, reader_active_tags, story_file, hw, player, leds>>

\* ------------------------------------------------------------------------
\* RFID thread
\* ------------------------------------------------------------------------
\* the mutant of on_tag_detected: the state is not looked at
on_tag_detected_in_any_state(reader_id, tag_id) ==
    /\ pc["rfid"] = "idle"
    /\ reader_active_tags[reader_id] # tag_id
    /\ \A r \in Readers : reader_active_tags[r] # tag_id
    /\ Deliver("tag_detected")
    /\ reader_active_tags' = [reader_active_tags EXCEPT ![reader_id] = tag_id]
    /\ Goto("rfid", "detected")
    /\ Quiet
    /\ UNCHANGED <<ctl, story_file, hw, player, leds, snap>>

\* on_tag_detected up to the blocking character lookup.  The reader manager
\* reports a tag only when it differs from the one last seen on that reader,
\* and a figurine stands on one reader at a time.
on_tag_detected(reader_id, tag_id) ==
    /\ pc["rfid"] = "idle"
    /\ reader_active_tags[reader_id] # tag_id
    /\ \A r \in Readers : reader_active_tags[r] # tag_id
    /\ Deliver("tag_detected")
    /\ reader_active_tags' = [reader_active_tags EXCEPT ![reader_id] = tag_id]
    /\ IF state # "PREPARING_STORY"
         THEN UNCHANGED pc
         ELSE Goto("rfid", "detected")
    /\ Quiet
    /\ UNCHANGED <<ctl, story_file, hw, player, leds, snap>>

\* on_tag_detected after the lookup: the name prompt, then the state check and
\* the reader loop of _update_preparing_feedback
on_tag_detected_feedback ==
    /\ pc["rfid"] = "detected"
    /\ prompt' = _play_system_prompt(state, "character")
    /\ IF state # "PREPARING_STORY"
         THEN /\ Goto("rfid", "idle")
              /\ UNCHANGED snap
         ELSE /\ snap' = [snap EXCEPT !["rfid"] = active_tag_ids(reader_active_tags)]
              /\ Goto("rfid", "commit")
    /\ Internal
    /\ UNCHANGED <<ctl, reader_active_tags, story_file, hw, player, leds>>

\* on_tag_removed up to the blocking character lookup
on_tag_removed(reader_id) ==
    /\ pc["rfid"] = "idle"
    /\ reader_active_tags[reader_id] # NoTag
    /\ Deliver("tag_removed")
    /\ reader_active_tags' = [reader_active_tags EXCEPT ![reader_id] = NoTag]
    /\ IF state # "PREPARING_STORY"
         THEN /\ Quiet
              /\ UNCHANGED pc
         ELSE /\ prompt' = _play_system_prompt(state, "tag_removed")
              /\ Goto("rfid", "upf")
    /\ UNCHANGED <<ctl, story_file, hw, player, leds, snap>>

\* ------------------------------------------------------------------------
\* Duration selector thread
\* ------------------------------------------------------------------------
\* on_duration_change
on_duration_change(mode) ==
    /\ session' = [session EXCEPT !.duration_mode = mode]
    /\ prompt' = _play_system_prompt(state, mode)

\* DurationSelector.start.run: the first read, then the polling loop; the
\* child may have moved the selector since the last read
selector_poll(sampled) ==
    /\ pins' = sampled
    /\ LET mode == read_mode(sampled)
       IN  IF last_mode = "unset"
             THEN /\ last_mode' = mode
                  /\ IF mode # "unknown"
                       THEN on_duration_change(mode)
                       ELSE /\ Quiet
                            /\ UNCHANGED session
             ELSE /\ mode # last_mode
                  /\ mode # "unknown"
                  /\ last_mode' = mode
                  /\ on_duration_change(mode)
    /\ Deliver("selector")
    /\ UNCHANGED <<state, reader_active_tags, story_file, last_status, player,
                   leds, pc, snap>>

\* ------------------------------------------------------------------------
\* Network monitor thread
\* ------------------------------------------------------------------------
\* NetworkMonitor._run: the state check before the probe
monitor_poll ==
    /\ pc["monitor"] = "idle"
    /\ state \notin skip_states
    /\ Deliver("probe")
    /\ Goto("monitor", "probe")
    /\ Quiet
    /\ UNCHANGED <<ctl, reader_active_tags, story_file, hw, player, leds, snap>>

\* notify_no_internet, called by _handle_status(False)
notify_no_internet ==
    /\ pc["monitor"] = "probe"
    /\ state' = "WAITING_NETWORK"
    /\ background' = "cycle"
    /\ prompt' = _play_system_prompt("WAITING_NETWORK", "no_internet")
    /\ last_status' = "False"
    /\ Goto("monitor", "idle")
    /\ Internal
    /\ UNCHANGED <<session, reader_active_tags, story_file, pins, last_mode,
                   player, event, snap>>

\* _handle_status(True) and on_network_ready up to its sleep
on_network_ready ==
    /\ pc["monitor"] = "probe"
    /\ last_status' = "True"
    /\ IF last_status = "True"
         THEN /\ Goto("monitor", "idle")
              /\ Quiet
              /\ UNCHANGED <<state, event>>
         ELSE IF state = "WAITING_NETWORK"
           THEN /\ prompt' = _play_system_prompt(state, "internet_connected")
                /\ event' = "flash_green"
                /\ Goto("monitor", "nr_sleep")
                /\ UNCHANGED state
           ELSE IF state = "BOOTING"
             THEN /\ state' = "IDLE_READY"
                  /\ Goto("monitor", "sp")
                  /\ Quiet
                  /\ UNCHANGED event
             ELSE /\ Goto("monitor", "idle")
                  /\ Quiet
                  /\ UNCHANGED <<state, event>>
    /\ Internal
    /\ UNCHANGED <<session, reader_active_tags, story_file, pins, last_mode,
                   player, background, snap>>

\* on_network_ready after time.sleep(4.0)
on_network_ready_after_sleep ==
    /\ pc["monitor"] = "nr_sleep"
    /\ IF state \in {"BOOTING", "WAITING_NETWORK"}
         THEN /\ state' = "IDLE_READY"
              /\ Goto("monitor", "sp")
         ELSE /\ Goto("monitor", "idle")
              /\ UNCHANGED state
    /\ Internal
    /\ Quiet
    /\ UNCHANGED <<session, reader_active_tags, story_file, hw, player, leds, snap>>

\* ------------------------------------------------------------------------
\* Play/pause button: short press (button thread), long press (timer thread)
\* ------------------------------------------------------------------------
\* the mutant of click_branch: a press while the story is requested asks again
click_branch_while_requesting(st) ==
    IF st \in {"PREPARING_STORY", "REQUESTING_STORY"} THEN "req"
    ELSE IF st = "PLAYING_STORY" THEN "pause"
    ELSE IF st = "CONFIRM_STOP" THEN "resume"
    ELSE "idle"

\* on_play_pause_click: the branch taken for the state it reads
click_branch(st) ==
    IF st = "PREPARING_STORY" THEN "req"
    ELSE IF st = "PLAYING_STORY" THEN "pause"
    ELSE IF st = "CONFIRM_STOP" THEN "resume"
    ELSE "idle"

\* on_play_pause_click: the flash and the dispatch on the state
on_play_pause_click ==
    /\ pc["button"] = "idle"
    /\ Deliver("click")
    /\ event' = "flash_red"
    /\ Goto("button", click_branch(state))
    /\ Quiet
    /\ UNCHANGED <<ctl, reader_active_tags, story_file, hw, player, background, snap>>

\* the first idle worker thread
free_worker == IF pc["worker1"] = "idle" THEN "worker1" ELSE "worker2"

\* the mutant of request_story_allowed: the check for figures is missing
request_story_without_figures_check(st, uids) == st = "PREPARING_STORY"

\* request_story: refuse without figures, else start the worker
request_story_allowed(st, uids) == st = "PREPARING_STORY" /\ uids # <<>>

\* request_story, called from on_play_pause_click.  The worker it starts
\* clears loading_stop_event and starts a _play_loading_loop thread.
request_story ==
    /\ pc["button"] = "req"
    /\ IF request_story_allowed(state, session.figure_rfid_uids)
         THEN /\ pc[free_worker] = "idle"
              /\ state' = "REQUESTING_STORY"
              /\ background' = "cycle"
              /\ pc' = [pc EXCEPT !["button"] = "idle", ![free_worker] = "call"]
              /\ loading_stop_event' = FALSE
              /\ loops' = loops + 1
              /\ Quiet
         ELSE /\ IF state # "PREPARING_STORY"
                   THEN Quiet
                   ELSE prompt' = _play_system_prompt(state, "no_characters")
              /\ Goto("button", "idle")
              /\ UNCHANGED <<state, background, loading_vars>>
    /\ Own
    /\ UNCHANGED <<session, reader_active_tags, story_file, hw, player, event, snap>>

\* the mutant of state_after_pause: the state StoryBoxController.pause_story sets
state_of_pause_story == "PAUSED"

\* on_play_pause_click, PLAYING_STORY branch: _set_state(CONFIRM_STOP)
state_after_pause == "CONFIRM_STOP"

\* on_play_pause_click, PLAYING_STORY branch
click_pause ==
    /\ pc["button"] = "pause"
    /\ pause_story
    /\ state' = state_after_pause
    /\ prompt' = _play_system_prompt("CONFIRM_STOP", "stop_story")
    /\ event' = "breathe_red"
    /\ Goto("button", "idle")
    /\ Internal
    /\ UNCHANGED <<session, reader_active_tags, story_file, hw, background, snap>>

\* resume_story, called from on_play_pause_click
resume_story ==
    /\ pc["button"] = "resume"
    /\ IF state \notin {"PAUSED", "CONFIRM_STOP"}
         THEN UNCHANGED <<state, player>>
         ELSE /\ state' = "PLAYING_STORY"
              /\ resume_story_audio
    /\ Goto("button", "idle")
    /\ Internal
    /\ Quiet
    /\ UNCHANGED <<session, reader_active_tags, story_file, hw, leds, snap>>

\* the mutant of long_press_branch: holding the button while the story plays stops it
long_press_branch_while_playing(st) ==
    IF st \in {"CONFIRM_STOP", "PLAYING_STORY"} THEN "stop" ELSE "idle"

\* on_play_pause_long_press: the branch taken for the state it reads
long_press_branch(st) == IF st = "CONFIRM_STOP" THEN "stop" ELSE "idle"

\* on_play_pause_long_press: the dispatch on the state
on_play_pause_long_press ==
    /\ pc["timer"] = "idle"
    /\ Deliver("long_press")
    /\ Goto("timer", long_press_branch(state))
    /\ Quiet
    /\ UNCHANGED <<ctl, reader_active_tags, story_file, hw, player, leds, snap>>

\* the mutant of reset_session: the old session object is kept
keep_session(mode) == [session EXCEPT !.duration_mode = mode]

\* the session after stop_story_and_reset / on_story_finished rebuilt it
reset_session(mode) == [StorySession EXCEPT !.duration_mode = mode]

\* stop_story_and_reset up to the call of start_preparing
stop_story_and_reset(sampled) ==
    /\ pc["timer"] = "stop"
    /\ stop_story
    /\ pins' = sampled
    /\ session' = reset_session(read_mode(sampled))
    /\ state' = "IDLE_READY"
    /\ Goto("timer", "sp")
    /\ Internal
    /\ Quiet
    /\ UNCHANGED <<reader_active_tags, story_file, polled, leds, snap>>

\* ------------------------------------------------------------------------
\* Audio player: the end-of-media watcher thread
\* ------------------------------------------------------------------------
\* _wait_for_story_end: the media ended, the flags are cleared under the lock
story_ends ==
    /\ pc["watcher"] = "idle"
    /\ is_playing
    /\ ~paused
    /\ Deliver("story_end")
    /\ is_playing' = FALSE
    /\ paused' = FALSE
    /\ Goto("watcher", "fin")
    /\ Quiet
    /\ UNCHANGED <<ctl, reader_active_tags, story_file, hw, leds, snap>>

\* on_story_finished up to the call of start_preparing
on_story_finished(sampled) ==
    /\ pc["watcher"] = "fin"
    /\ pins' = sampled
    /\ session' = reset_session(read_mode(sampled))
    /\ state' = "IDLE_READY"
    /\ Goto("watcher", "sp")
    /\ Internal
    /\ Quiet
    /\ UNCHANGED <<reader_active_tags, story_file, polled, player, leds, snap>>

\* ------------------------------------------------------------------------
\* Story request worker (request_story.run)
\* ------------------------------------------------------------------------
\* the mutant of start_story: the state is left as it is
start_story_without_state(audio_path, led_path) ==
    /\ session' = [session EXCEPT !.story_audio_path = audio_path,
                                  !.led_pattern_path = led_path]
    /\ UNCHANGED state
    /\ play_story

\* start_story: needs an audio path, then PLAYING_STORY and playback
start_story(audio_path, led_path) ==
    /\ session' = [session EXCEPT !.story_audio_path = audio_path,
                                  !.led_pattern_path = led_path]
    /\ state' = "PLAYING_STORY"
    /\ play_story

\* run: generate_story returned the assets; the grace sleep follows
story_received(w) ==
    /\ pc[w] = "call"
    /\ loading_stop_event' = TRUE
    /\ UNCHANGED loops
    /\ prompt' = _play_system_prompt(state, "story_start")
    /\ Goto(w, "grace")
    /\ Own
    /\ UNCHANGED <<ctl, reader_active_tags, story_file, hw, player, leds, snap>>

\* run: after time.sleep(5.0) the paths are stored and start_story is called
story_ready(w) ==
    /\ pc[w] = "grace"
    /\ start_story("generated_audio", "generated_leds")
    /\ Goto(w, "idle")
    /\ Internal
    /\ Quiet
    /\ UNCHANGED <<reader_active_tags, story_file, hw, leds, snap>>

\* run: generate_story failed
story_failed(w) ==
    /\ pc[w] = "call"
    /\ IF story_file
         THEN /\ prompt' = _play_system_prompt(state, "story_start")
              /\ \E led_path \in {"default_leds", None} :
                    start_story("default_audio", led_path)
              /\ Goto(w, "idle")
         ELSE /\ prompt' = _play_system_prompt(state, "error")
              /\ state' = "PREPARING_STORY"
              /\ Goto(w, "upf")
              /\ UNCHANGED <<session, player>>
    /\ Internal
    /\ UNCHANGED <<reader_active_tags, story_file, hw, leds, snap>>

\* _play_loading_loop: the event is not set, the waiting prompt is played
\* and the thread sleeps 12 to 15 seconds
_play_loading_loop ==
    /\ loops > 0
    /\ ~loading_stop_event
    /\ prompt' = _play_system_prompt(state, "story_waiting")
    /\ last_event' = "_play_loading_loop"
    /\ UNCHANGED <<ctl, reader_active_tags, story_file, hw, player, leds, pc, snap,
                   events, loading_vars, aside_vars>>

\* _play_loading_loop: the event is set, the thread returns
_play_loading_loop_return ==
    /\ loops > 0
    /\ loading_stop_event
    /\ loops' = loops - 1
    /\ Quiet
    /\ last_event' = "none"
    /\ UNCHANGED <<ctl, reader_active_tags, story_file, hw, player, leds, pc, snap,
                   events, loading_stop_event, aside_vars>>

\* ------------------------------------------------------------------------
\* Specification
\* ------------------------------------------------------------------------
Next ==
    \/ \E t \in Threads, p \in SelectorPins : start_preparing(t, p)
    \/ \E t \in Threads : _update_preparing_feedback(t)
    \/ \E t \in Threads : commit_active_tags(t)
    \/ \E r \in Readers, tag \in Tags : on_tag_detected(r, tag)
    \/ on_tag_detected_feedback
    \/ \E r \in Readers : on_tag_removed(r)
    \/ \E p \in SelectorPins : selector_poll(p)
    \/ monitor_poll
    \/ notify_no_internet
    \/ on_network_ready
    \/ on_network_ready_after_sleep
    \/ on_play_pause_click
    \/ request_story
    \/ click_pause
    \/ resume_story
    \/ on_play_pause_long_press
    \/ \E p \in SelectorPins : stop_story_and_reset(p)
    \/ story_ends
    \/ \E p \in SelectorPins : on_story_finished(p)
    \/ \E w \in Workers : story_received(w)
    \/ \E w \in Workers : story_ready(w)
    \/ \E w \in Workers : story_failed(w)
    \/ _play_loading_loop
    \/ _play_loading_loop_return

\* no scripted timeline is rendered
\* no segment pattern was rendered
NoElapsed == -1

TimelineIdle ==
    /\ segments = <<>>
    /\ supplied = [ok |-> FALSE, value |-> 0]
    /\ segment_index = 0
    /\ fallback = FALSE
    /\ active_segment_index = 0
    /\ frame_source = "none"
    /\ segment_elapsed = NoElapsed

\* the render loop has nothing to do: no frame is rendered, no method called
LightingIdle ==
    /\ event_duration = NoDuration
    /\ event_elapsed = 0
    /\ strip_active = FALSE
    /\ frame_cmd = "none"
    /\ frame_of = "none"
    /\ colors = "none"
    /\ idle_run = 0
    /\ idle_offs = 0
    /\ frames = 0
    /\ led_calls = 0

\* a GroupCyclePattern with the default lengths, not yet reset
GroupsIdle ==
    /\ base_lengths = <<1>>
    /\ pixel_count = 0
    /\ groups = <<>>

\* most calls of play_story
MaxPlays == 2

\* most calls of pause_story, resume_story and stop_story together
MaxPlayerCalls == 3

\* a play_story adds 2 to the token, a stop_story 1
Tokens == 1..(2 * MaxPlays + MaxPlayerCalls)

\* AudioPlayer.__init__; nothing is played
PlayerIdle ==
    /\ playback_token = 0
    /\ music = "idle"
    /\ watcher = [t \in Tokens |-> "absent"]
    /\ sync = [t \in Tokens |-> "absent"]
    /\ finished = [t \in Tokens |-> 0]
    /\ led_owner = 0
    /\ plays = 0
    /\ player_calls = 0

\* the producing threads run and have called nothing
SourcesIdle ==
    /\ killed = {}
    /\ raised_in = {}
    /\ resumed = {}
    /\ last_site = "none"
    /\ deliveries = 0

\* _parse_color has not been called
NotParsed == [done |-> FALSE, present |-> FALSE, rgb |-> <<0, 0, 0>>]

ColorIdle ==
    /\ color_data = [kind |-> "none", components |-> <<>>]
    /\ color = NotParsed

\* load_story_led_timeline returned None, or was not called
NoTimeline == [set |-> FALSE, segments |-> <<>>]

\* no document is read; the LedController of 2architecture as constructed
LoaderIdle ==
    /\ document = [kind |-> "missing", entries |-> <<>>]
    /\ loaded = NoTimeline
    /\ earlier = NoTimeline
    /\ load_raised = FALSE
    /\ loads = 0
    /\ _current_state = None
    /\ _story_timeline = NoTimeline
    /\ _state_pattern = None

\* the threads that call the LedController's methods
Callers == {"caller1", "caller2"}

LockThreads == Callers \cup {"loop"}

\* the last step read or wrote no slot, called the driver not
Nobody == [by |-> "none", holder |-> "none"]

\* LedController.__init__: the lock is free, both slots are empty, the loop
\* is about to run its first frame, nobody calls
LockIdle ==
    /\ _lock = "free"
    /\ at = [t \in LockThreads |-> "idle"]
    /\ method = [t \in Callers |-> "none"]
    /\ _background_pattern = FALSE
    /\ _event_pattern = FALSE
    /\ selected = "none"
    /\ touched = Nobody
    /\ output = Nobody
    /\ lock_calls = 0

\* no character has been resolved
Unresolved == [tag |-> NoTag, from |-> "none"]

\* StoryBoxController.__init__: nothing is cached, nothing was looked up
CharactersIdle ==
    /\ variant = "architecture"
    /\ api_client = TRUE
    /\ _tag_names = [t \in Tags |-> FALSE]
    /\ queried = [t \in Tags |-> 0]
    /\ known = {}
    /\ resolved = Unresolved
    /\ lookups = 0

\* the rotary encoder has not been turned
NotRotated == [delta |-> 0, from |-> 0]

\* AudioOutput.__init__: initial_volume = 0.5
VolumeIdle ==
    /\ volume = 50
    /\ rotated = NotRotated

\* shutdown() has not returned
NotReturned == -1

\* the render thread of this part is not started, shutdown() is not called
ShutdownIdle ==
    /\ _stop_event = FALSE
    /\ _strip_active = FALSE
    /\ patterned = FALSE
    /\ loop_at = "none"
    /\ pending = "nothing"
    /\ shutdown_at = "idle"
    /\ driver = <<>>
    /\ returned_at = NotReturned
    /\ loop_frames = 0

\* presses of the play/pause button
MaxPresses == 2

Presses == 1..MaxPresses

\* no press has started a timer, no press has led to a callback
NoTimers == [k \in Presses |-> "none"]

NoCalls == [k \in Presses |-> 0]

\* the button is up and was never pressed
ButtonIdle ==
    /\ pin_level = "HIGH"
    /\ last_state = "HIGH"
    /\ poll_at = "poll"
    /\ timer_at = NoTimers
    /\ _long_press_triggered = FALSE
    /\ short_presses = NoCalls
    /\ long_presses = NoCalls
    /\ presses = 0

MoreIdle == VolumeIdle /\ ShutdownIdle /\ ButtonIdle

RestIdle == ColorIdle /\ LoaderIdle /\ LockIdle /\ CharactersIdle /\ MoreIdle

Init ==
    /\ ControllerInit
    /\ TimelineIdle
    /\ LightingIdle
    /\ GroupsIdle
    /\ PlayerIdle
    /\ SourcesIdle
    /\ RestIdle

Spec == Init /\ [][Next]_vars

\* ------------------------------------------------------------------------
\* Scripted timeline (src/2architecture/services/led_patterns.py,
\* story_led_timeline.py).  Times are in milliseconds.
\* ------------------------------------------------------------------------
\* longest timeline
MaxSegments == 2

\* _segment_end returns None
NoEnd == -1

SegmentStarts == {0, 2000, 5000}

SegmentDurations == {NoDuration, 0, 3000, 5000}

PatternIds == {"A", "B"}

\* values the time supplier (AudioPlayer.get_playback_position) returns
Positions == {-1000, 0, 1999, 2000, 4999, 5000, 9999, 10000, 20000}

StoryLedSegment ==
    [start : SegmentStarts, duration : SegmentDurations, pattern_id : PatternIds]

RawTimelines == UNION {[1..n -> StoryLedSegment] : n \in 1..MaxSegments}

\* list.sort(key=start) is stable: a segment goes behind those that start no later
RECURSIVE insert_by_start(_, _)
insert_by_start(sorted, segment) ==
    IF sorted = <<>> THEN <<segment>>
    ELSE IF sorted[Len(sorted)].start <= segment.start
      THEN Append(sorted, segment)
      ELSE Append(insert_by_start(SubSeq(sorted, 1, Len(sorted) - 1), segment),
                  sorted[Len(sorted)])

RECURSIVE sort_by_start(_)
\* StoryLedTimeline.__post_init__
sort_by_start(raw) ==
    IF raw = <<>> THEN <<>>
    ELSE insert_by_start(sort_by_start(SubSeq(raw, 1, Len(raw) - 1)), raw[Len(raw)])

\* ScriptedTimelinePattern._current_time
_current_time(sup) ==
    IF ~sup.ok THEN 0
    ELSE IF sup.value > 0 THEN sup.value ELSE 0

\* the mutant of _segment_end: the explicit end is ignored
segment_end_ignoring_duration(segs, idx) ==
    IF idx + 1 <= Len(segs) THEN segs[idx + 1].start ELSE NoEnd

\* ScriptedTimelinePattern._segment_end
_segment_end(segs, idx) ==
    IF segs[idx].duration # NoDuration
      THEN segs[idx].start + segs[idx].duration
      ELSE IF idx + 1 <= Len(segs) THEN segs[idx + 1].start ELSE NoEnd

RECURSIVE select_from(_, _, _)
\* _select_segment_index: the loop, from index idx on
select_from(segs, current_time, idx) ==
    IF idx > Len(segs) THEN Len(segs)
    ELSE IF current_time < segs[idx].start
      THEN IF idx = 1 THEN 1 ELSE select_from(segs, current_time, idx + 1)
      ELSE LET end_time == _segment_end(segs, idx)
           IN  IF end_time = NoEnd \/ current_time < end_time
                 THEN idx
                 ELSE select_from(segs, current_time, idx + 1)

\* ScriptedTimelinePattern._select_segment_index (0 for None)
_select_segment_index(segs, current_time) ==
    IF segs = <<>> THEN 0 ELSE select_from(segs, current_time, 1)

\* the mutant of elapsed_in_segment: the segment's duration is not applied
elapsed_since_start(segs, idx, current_time) ==
    IF current_time > segs[idx].start THEN current_time - segs[idx].start ELSE 0

\* render, its last lines: max(0.0, current_time - segment.start), then
\* min(elapsed, segment.duration) when the segment has a duration
elapsed_in_segment(segs, idx, current_time) ==
    LET since == IF current_time > segs[idx].start
                   THEN current_time - segs[idx].start ELSE 0
    IN  IF segs[idx].duration # NoDuration /\ segs[idx].duration < since
          THEN segs[idx].duration
          ELSE since

\* LedPattern.render_for_elapsed: safe_elapsed = max(0.0, elapsed)
render_for_elapsed(passed) == IF passed > 0 THEN passed ELSE 0

\* render: what is returned when no segment pattern is active
fallback_or_black == IF fallback THEN "fallback" ELSE "black"

\* ScriptedTimelinePattern.render (pixel_count > 0): read the position, select
\* the segment, build its pattern when the segment changed (create_pattern
\* may fail), return the active pattern's frame, else the fallback's, else black
render(ok, value, builds) ==
    LET idx == _select_segment_index(segments, _current_time([ok |-> ok, value |-> value]))
        active == IF idx = 0 THEN active_segment_index
                  ELSE IF idx # active_segment_index
                    THEN (IF builds THEN idx ELSE 0)
                    ELSE active_segment_index
    IN  /\ supplied' = [ok |-> ok, value |-> value]
        /\ segment_index' = idx
        /\ active_segment_index' = active
        /\ frame_source' = IF idx = 0 \/ active = 0 THEN fallback_or_black ELSE "segment"
        /\ segment_elapsed' =
             IF idx = 0 \/ active = 0 THEN NoElapsed
             ELSE render_for_elapsed(elapsed_in_segment(segments, active,
                      _current_time([ok |-> ok, value |-> value])))
        /\ UNCHANGED <<segments, fallback, beside_timeline>>

\* a timeline as load_story_led_timeline hands it to the pattern
TimelineInit ==
    /\ ControllerInit
    /\ segments \in {sort_by_start(raw) : raw \in RawTimelines}
    /\ supplied = [ok |-> FALSE, value |-> 0]
    /\ segment_index = 0
    /\ fallback \in BOOLEAN
    /\ active_segment_index = 0
    /\ frame_source = "none"
    /\ segment_elapsed = NoElapsed
    /\ LightingIdle
    /\ GroupsIdle
    /\ PlayerIdle
    /\ SourcesIdle
    /\ RestIdle

TimelineNext ==
    \/ \E value \in Positions, builds \in BOOLEAN : render(TRUE, value, builds)
    \/ \E builds \in BOOLEAN : render(FALSE, 0, builds)

SpecTimeline == TimelineInit /\ [][TimelineNext]_vars

\* ------------------------------------------------------------------------
\* LedController and its render loop (src/architecture/services/
\* led_controller.py).  Time is counted in frame intervals.
\* ------------------------------------------------------------------------
\* longest configured duration of an event pattern
MaxDuration == 2

\* frames the render loop runs
MaxFrames == 4

\* calls of set_background_pattern / led_event / clear
MaxLedCalls == 3

BackgroundKinds == {"cycle", "group_cycle"}

\* InstantFlashPattern (with a duration) and BreatheSlowPattern (without)
FlashKinds == {"flash_red", "flash_green"}

EventKinds == FlashKinds \cup {"breathe_red"}

\* what the lighting specification leaves alone
lighting_frame ==
    <<state, session, reader_active_tags, story_file, pins, last_mode, last_status,
      is_playing, paused, prompt, pc, snap, events, last_event, loading_vars,
      beside_lighting>>

\* LedPattern.is_finished: self._duration and self.elapsed() >= self._duration
is_finished(duration, elapsed) ==
    /\ duration # NoDuration
    /\ duration # 0
    /\ elapsed >= duration

\* LedController.set_background_pattern
set_background_pattern(kind) ==
    /\ led_calls > 0
    /\ led_calls' = led_calls - 1
    /\ background' = kind
    /\ UNCHANGED <<event, event_duration, event_elapsed, strip_active, frame_cmd,
                   frame_of, colors, idle_run, idle_offs, frames, lighting_frame>>

\* LedController.led_event: the pattern is built and reset
led_event(kind, duration) ==
    /\ led_calls > 0
    /\ led_calls' = led_calls - 1
    /\ event' = kind
    /\ event_duration' = duration
    /\ event_elapsed' = 0
    /\ UNCHANGED <<background, strip_active, frame_cmd, frame_of, colors, idle_run,
                   idle_offs, frames, lighting_frame>>

\* LedController.clear: both slots emptied, the driver switched off directly
clear ==
    /\ led_calls > 0
    /\ led_calls' = led_calls - 1
    /\ background' = "none"
    /\ event' = "none"
    /\ event_duration' = NoDuration
    /\ event_elapsed' = 0
    /\ UNCHANGED <<strip_active, frame_cmd, frame_of, colors, idle_run, idle_offs,
                   frames, lighting_frame>>

\* time.monotonic() advances by one frame interval
time_passes ==
    /\ event # "none"
    /\ event_elapsed <= MaxDuration
    /\ event_elapsed' = event_elapsed + 1
    /\ UNCHANGED <<background, event, event_duration, strip_active, frame_cmd,
                   frame_of, colors, idle_run, idle_offs, frames, led_calls, lighting_frame>>

\* _run_loop: active_pattern = self._event_pattern or self._background_pattern
active_pattern ==
    IF event # "none" THEN "event"
    ELSE IF background # "none" THEN "background"
    ELSE "none"

\* _run_loop: colors after the `with` block: none without a pattern, failed
\* when render() raised (colors = []) or returned another number of pixels.
\* A flash of duration 0 divides by zero in render
rendered(renders) ==
    IF active_pattern = "none" THEN "none"
    ELSE IF renders /\ ~(active_pattern = "event" /\ event \in FlashKinds
                                                /\ event_duration = 0)
      THEN "valid"
      ELSE "failed"

\* the mutant of colors_valid: whatever a pattern rendered is sent
colors_unchecked(renders) == active_pattern # "none"

\* _run_loop: colors and len(colors) == self._pixel_count
colors_valid(renders) == rendered(renders) = "valid"

\* the mutant of strip_active_after: the flag is not reset when the strip goes off
strip_active_kept(valid) == valid \/ strip_active

\* _run_loop: self._strip_active after the frame
strip_active_after(valid) == valid

\* _run_loop: the body of the while loop.  render() may fail; is_finished()
\* reads the clock after render() did, `late` frame intervals later
frame(renders, late) ==
    LET valid == colors_valid(renders)
        event_finished == event # "none" /\ is_finished(event_duration, event_elapsed + late)
    IN  /\ colors' = rendered(renders)
        /\ frame_cmd' = IF valid THEN "pixels"
                        ELSE IF strip_active THEN "off" ELSE "none"
        /\ frame_of' = IF valid THEN active_pattern ELSE "none"
        /\ strip_active' = strip_active_after(valid)
        /\ event' = IF event_finished THEN "none" ELSE event
        /\ event_duration' = IF event_finished THEN NoDuration ELSE event_duration
        /\ event_elapsed' = IF event_finished THEN 0 ELSE event_elapsed + late
        /\ idle_run' = IF active_pattern = "none" THEN idle_run + 1 ELSE 0
        /\ idle_offs' = IF active_pattern # "none" THEN 0
                        ELSE IF strip_active THEN idle_offs + 1 ELSE idle_offs
        /\ UNCHANGED <<background, led_calls, lighting_frame>>

\* _run_loop: one frame of a run of MaxFrames frames
_run_loop(renders, late) ==
    /\ frames > 0
    /\ frames' = frames - 1
    /\ frame(renders, late)

\* LedController.__init__, with the frames and calls of the run
LightingInit ==
    /\ ControllerInit
    /\ TimelineIdle
    /\ GroupsIdle
    /\ PlayerIdle
    /\ SourcesIdle
    /\ RestIdle
    /\ event_duration = NoDuration
    /\ event_elapsed = 0
    /\ strip_active = FALSE
    /\ frame_cmd = "none"
    /\ frame_of = "none"
    /\ colors = "none"
    /\ idle_run = 0
    /\ idle_offs = 0
    /\ frames = MaxFrames
    /\ led_calls = MaxLedCalls

LightingNext ==
    \/ \E kind \in BackgroundKinds \cup {"none"} : set_background_pattern(kind)
    \/ \E kind \in FlashKinds, duration \in 0..MaxDuration : led_event(kind, duration)
    \/ led_event("breathe_red", NoDuration)
    \/ clear
    \/ time_passes
    \/ \E renders \in BOOLEAN, late \in {0, 1} : _run_loop(renders, late)

SpecLighting == LightingInit /\ [][LightingNext]_vars

\* ------------------------------------------------------------------------
\* GroupCyclePattern.on_reset: the layout of the groups on the strip
\* (src/architecture/services/led_patterns.py)
\* ------------------------------------------------------------------------
\* most groups of a pattern
MaxGroups == 4

\* longest strip
MaxPixels == 30

\* the relative lengths a group may be given
GroupLengths == {1, 2, 6, 8}

\* sum(self._base_lengths)
RECURSIVE sum(_)
sum(lengths) ==
    IF lengths = <<>> THEN 0 ELSE Head(lengths) + sum(Tail(lengths))

min(a, b) == IF a <= b THEN a ELSE b

max(a, b) == IF a >= b THEN a ELSE b

\* int(round(length * scale)), scale = n / total.  An exact half is rounded
\* to either side: the floating-point product decides which.
round_scaled(length, n, total, up) ==
    LET q == (length * n) \div total
        r == (length * n) % total
    IN  IF 2 * r < total THEN q
        ELSE IF 2 * r > total THEN q + 1
        ELSE IF up THEN q + 1 ELSE q

\* the mutant of group_target: the reserve for the groups to come is not kept
group_target_unreserved(rounded, remaining_pixels, remaining_groups) ==
    IF remaining_groups = 0 THEN remaining_pixels ELSE max(1, rounded)

\* on_reset: the pixels the group takes
group_target(rounded, remaining_pixels, remaining_groups) ==
    IF remaining_groups = 0 THEN remaining_pixels
    ELSE min(max(1, rounded), remaining_pixels - remaining_groups)

\* on_reset: the loop over self._base_lengths, from group i on
RECURSIVE indices(_, _, _, _, _)
indices(lengths, i, cursor, n, ties) ==
    IF i > Len(lengths) THEN <<>>
    ELSE LET remaining_pixels == max(0, n - cursor)
             remaining_groups == Len(lengths) - i
             target == group_target(round_scaled(lengths[i], n, sum(lengths), i \in ties),
                                    remaining_pixels, remaining_groups)
             stop == min(n, cursor + target)
         IN  <<(<<cursor, stop>>)>> \o indices(lengths, i + 1, stop, n, ties)

\* self._groups = [g for g in indices if g[1] > g[0]]
RECURSIVE non_empty(_)
non_empty(ranges) ==
    IF ranges = <<>> THEN <<>>
    ELSE IF Head(ranges)[2] > Head(ranges)[1]
      THEN <<Head(ranges)>> \o non_empty(Tail(ranges))
      ELSE non_empty(Tail(ranges))

\* LedPattern.reset(count) followed by GroupCyclePattern.on_reset; ties are
\* the groups whose exact half is rounded up
on_reset(count, ties) ==
    /\ pixel_count' = count
    /\ groups' = IF sum(base_lengths) <= 0 \/ count <= 0 THEN <<>>
                 ELSE non_empty(indices(base_lengths, 1, 0, count, ties))
    /\ UNCHANGED <<base_lengths, beside_groups>>

\* GroupCyclePattern.__init__ with a list of positive lengths, the example
\* [6, 8, 8, 8] among them
GroupsInit ==
    /\ ControllerInit
    /\ TimelineIdle
    /\ LightingIdle
    /\ PlayerIdle
    /\ SourcesIdle
    /\ RestIdle
    /\ base_lengths \in UNION {[1..k -> GroupLengths] : k \in 1..MaxGroups}
    /\ pixel_count = 0
    /\ groups = <<>>

\* the groups whose scaled length is an exact half
halves(lengths, n) ==
    {i \in 1..Len(lengths) : 2 * ((lengths[i] * n) % sum(lengths)) = sum(lengths)}

GroupsNext ==
    \E count \in 0..MaxPixels :
        \E ties \in SUBSET halves(base_lengths, count) : on_reset(count, ties)

SpecGroups == GroupsInit /\ [][GroupsNext]_vars

\* ------------------------------------------------------------------------
\* AudioPlayer and its two worker threads per playback
\* (src/architecture/services/audio_player.py).  A step is one section under
\* self._lock, or one call made outside it.
\* ------------------------------------------------------------------------
\* play_story.  The file may be missing, load/play may fail, and the timings
\* of the lighting may be missing, in which case the sync thread returns at once
AudioPlayer_play_story(outcome, timings) ==
    /\ plays > 0
    /\ plays' = plays - 1
    /\ IF outcome = "missing"
         THEN UNCHANGED <<playback_token, music, watcher, sync, is_playing, paused>>
       ELSE IF outcome = "load_fails"
         THEN /\ playback_token' = playback_token + 1
              /\ music' = "idle"
              /\ is_playing' = FALSE
              /\ paused' = FALSE
              /\ UNCHANGED <<watcher, sync>>
       ELSE /\ playback_token' = playback_token + 2
            /\ music' = "playing"
            /\ is_playing' = TRUE
            /\ paused' = FALSE
            /\ watcher' = [watcher EXCEPT ![playback_token + 2] = "poll"]
            /\ sync' = [sync EXCEPT ![playback_token + 2] =
                            IF timings THEN "check" ELSE "done"]
    /\ UNCHANGED <<finished, led_owner, player_calls, beside_player>>

\* pause_story
AudioPlayer_pause_story ==
    /\ player_calls > 0
    /\ player_calls' = player_calls - 1
    /\ IF is_playing /\ ~paused
         THEN /\ music' = IF music = "playing" THEN "paused" ELSE music
              /\ paused' = TRUE
         ELSE UNCHANGED <<music, paused>>
    /\ UNCHANGED <<is_playing, playback_token, watcher, sync, finished, led_owner,
                   plays, beside_player>>

\* resume_story
AudioPlayer_resume_story ==
    /\ player_calls > 0
    /\ player_calls' = player_calls - 1
    /\ IF is_playing /\ paused
         THEN /\ music' = IF music = "paused" THEN "playing" ELSE music
              /\ paused' = FALSE
         ELSE UNCHANGED <<music, paused>>
    /\ UNCHANGED <<is_playing, playback_token, watcher, sync, finished, led_owner,
                   plays, beside_player>>

\* stop_story: _stop_story_locked under the lock
AudioPlayer_stop_story ==
    /\ player_calls > 0
    /\ player_calls' = player_calls - 1
    /\ music' = "idle"
    /\ playback_token' = playback_token + 1
    /\ is_playing' = FALSE
    /\ paused' = FALSE
    /\ UNCHANGED <<watcher, sync, finished, led_owner, plays, beside_player>>

\* the media reaches its end
music_ends ==
    /\ music = "playing"
    /\ music' = "ended"
    /\ UNCHANGED <<is_playing, paused, playback_token, watcher, sync, finished,
                   led_owner, plays, player_calls, beside_player>>

\* token != self._playback_token, negated
token_current(token) == token = playback_token

\* _wait_for_story_end: the first section under the lock samples the token,
\* get_busy() and self._paused.  While the media plays or is paused the
\* thread sleeps and polls again.
_wait_for_story_end_poll(token) ==
    /\ watcher[token] = "poll"
    /\ \/ ~token_current(token) /\ watcher' = [watcher EXCEPT ![token] = "done"]
       \/ /\ token_current(token)
          /\ music \notin {"playing", "paused"}
          /\ ~paused
          /\ watcher' = [watcher EXCEPT ![token] = "confirm"]
    /\ UNCHANGED <<is_playing, paused, playback_token, music, sync, finished,
                   led_owner, plays, player_calls, beside_player>>

\* _wait_for_story_end: the second section under the lock checks the token
\* again and clears the flags
_wait_for_story_end_confirm(token) ==
    /\ watcher[token] = "confirm"
    /\ IF token_current(token)
         THEN /\ is_playing' = FALSE
              /\ paused' = FALSE
              /\ watcher' = [watcher EXCEPT ![token] = "notify"]
         ELSE /\ watcher' = [watcher EXCEPT ![token] = "done"]
              /\ UNCHANGED <<is_playing, paused>>
    /\ UNCHANGED <<playback_token, music, sync, finished, led_owner, plays,
                   player_calls, beside_player>>

\* _wait_for_story_end: the finished callback is called, outside the lock
_wait_for_story_end_notify(token) ==
    /\ watcher[token] = "notify"
    /\ finished' = [finished EXCEPT ![token] = @ + 1]
    /\ watcher' = [watcher EXCEPT ![token] = "done"]
    /\ UNCHANGED <<is_playing, paused, playback_token, music, sync, led_owner,
                   plays, player_calls, beside_player>>

\* _sync_led_patterns_with_audio: the section under the lock.  While the
\* playback is paused the thread sleeps and checks again.
_sync_led_check(token) ==
    /\ sync[token] = "check"
    /\ \/ (~token_current(token) \/ ~is_playing)
            /\ sync' = [sync EXCEPT ![token] = "done"]
       \/ token_current(token) /\ is_playing /\ ~paused
            /\ sync' = [sync EXCEPT ![token] = "get_pos"]
    /\ UNCHANGED <<is_playing, paused, playback_token, music, watcher, finished,
                   led_owner, plays, player_calls, beside_player>>

\* _sync_led_patterns_with_audio: get_pos() outside the lock, negative when
\* nothing plays; the event of this playback's timings at that position
\* is new, or it is not
_sync_led_get_pos(token, changed) ==
    /\ sync[token] = "get_pos"
    /\ sync' = [sync EXCEPT ![token] =
                    IF music \in {"playing", "paused"} /\ changed
                    THEN "command" ELSE "check"]
    /\ UNCHANGED <<is_playing, paused, playback_token, music, watcher, finished,
                   led_owner, plays, player_calls, beside_player>>

\* _sync_led_patterns_with_audio: set_background_pattern with the pattern
\* of this playback's timings
_sync_led_command(token) ==
    /\ sync[token] = "command"
    /\ led_owner' = token
    /\ sync' = [sync EXCEPT ![token] = "check"]
    /\ UNCHANGED <<is_playing, paused, playback_token, music, watcher, finished,
                   plays, player_calls, beside_player>>

PlayerInit ==
    /\ ControllerInit
    /\ TimelineIdle
    /\ LightingIdle
    /\ GroupsIdle
    /\ SourcesIdle
    /\ RestIdle
    /\ playback_token = 0
    /\ music = "idle"
    /\ watcher = [t \in Tokens |-> "absent"]
    /\ sync = [t \in Tokens |-> "absent"]
    /\ finished = [t \in Tokens |-> 0]
    /\ led_owner = 0
    /\ plays = MaxPlays
    /\ player_calls = MaxPlayerCalls

PlayerNext ==
    \/ \E outcome \in {"missing", "load_fails", "plays"}, timings \in BOOLEAN :
          AudioPlayer_play_story(outcome, timings)
    \/ AudioPlayer_pause_story
    \/ AudioPlayer_resume_story
    \/ AudioPlayer_stop_story
    \/ music_ends
    \/ \E token \in Tokens :
          \/ _wait_for_story_end_poll(token)
          \/ _wait_for_story_end_confirm(token)
          \/ _wait_for_story_end_notify(token)
          \/ _sync_led_check(token)
          \/ \E changed \in BOOLEAN : _sync_led_get_pos(token, changed)
          \/ _sync_led_command(token)

SpecPlayer == PlayerInit /\ [][PlayerNext]_vars

\* ------------------------------------------------------------------------
\* The event sources: the threads that call the controller's callbacks
\* (hardware/rfid_reader.py, hardware/buttons.py, hardware/rotary_encoder.py,
\* hardware/selector.py, services/network_monitor.py, services/audio_player.py)
\* ------------------------------------------------------------------------
\* callbacks called in a run
MaxDeliveries == 4

\* the places where a callback of the controller is called
Sites ==
    {"on_tag_detected", "on_tag_removed", "on_short_press", "on_long_press",
     "on_press", "on_rotate", "on_click", "on_duration_change_initial",
     "on_duration_change", "on_online", "on_offline", "on_story_finished"}

\* the thread that runs the call site
producer(site) ==
    CASE site \in {"on_tag_detected", "on_tag_removed"} -> "RFIDReaderManager.run"
      [] site = "on_short_press" -> "PlayPauseButton.run"
      [] site = "on_long_press" -> "PlayPauseButton.Timer"
      [] site = "on_press" -> "StopButton.run"
      [] site \in {"on_rotate", "on_click"} -> "RotaryEncoder.run"
      [] site \in {"on_duration_change_initial", "on_duration_change"} ->
             "DurationSelector.run"
      [] site \in {"on_online", "on_offline"} -> "NetworkMonitor._run"
      [] OTHER -> "AudioPlayer._wait_for_story_end"

\* the mutant of catches: the timer's callback is called bare
catches_but_long_press(site) == site # "on_long_press"

\* the call is inside try / except Exception; this holds at each site
catches(site) == site \in Sites

\* the thread reaches the call site and calls the callback, which returns
\* or raises
call_callback(site, raises) ==
    /\ deliveries > 0
    /\ producer(site) \notin killed
    /\ deliveries' = deliveries - 1
    /\ last_site' = site
    /\ killed' = IF raises /\ ~catches(site) THEN killed \cup {producer(site)} ELSE killed
    /\ raised_in' = IF raises THEN raised_in \cup {producer(site)} ELSE raised_in
    /\ resumed' = IF producer(site) \in raised_in
                    THEN resumed \cup {producer(site)} ELSE resumed
    /\ UNCHANGED beside_sources

SourcesInit ==
    /\ ControllerInit
    /\ TimelineIdle
    /\ LightingIdle
    /\ GroupsIdle
    /\ PlayerIdle
    /\ killed = {}
    /\ raised_in = {}
    /\ resumed = {}
    /\ last_site = "none"
    /\ deliveries = MaxDeliveries
    /\ RestIdle

SourcesNext ==
    \E site \in Sites, raises \in BOOLEAN : call_callback(site, raises)

SpecSources == SourcesInit /\ [][SourcesNext]_vars

\* ------------------------------------------------------------------------
\* A story request from its start to its end: the controller's threads
\* with the worker scheduled
\* ------------------------------------------------------------------------
\* events delivered once a figure stands on a reader
MaxRequestEvents == 4

\* the controller has booted, the network is up, a figure stands on the
\* first reader and _update_preparing_feedback has listed it; a default
\* story file is configured or not
RequestInit ==
    /\ state = "PREPARING_STORY"
    /\ session = [reset_session(read_mode(<<0, 0>>)) EXCEPT !.figure_rfid_uids = <<1>>]
    /\ reader_active_tags = [r \in Readers |-> IF r = "reader1" THEN 1 ELSE NoTag]
    /\ story_file \in BOOLEAN
    /\ pins = <<0, 0>>
    /\ last_mode = "unset"
    /\ last_status = "True"
    /\ is_playing = FALSE
    /\ paused = FALSE
    /\ background = "group_cycle"
    /\ event = "none"
    /\ prompt = "none"
    /\ pc = [t \in Threads |-> "idle"]
    /\ snap = [t \in Threads |-> <<>>]
    /\ events = MaxRequestEvents
    /\ last_event = "none"
    /\ loading_stop_event = FALSE
    /\ loops = 0
    /\ TimelineIdle
    /\ LightingIdle
    /\ GroupsIdle
    /\ PlayerIdle
    /\ SourcesIdle
    /\ RestIdle

\* what the worker thread of a request does once generate_story returned
request_run(w) ==
    \/ story_received(w)
    \/ story_ready(w)
    \/ story_failed(w)
    \/ _update_preparing_feedback(w)
    \/ commit_active_tags(w)

\* the worker is a thread of its own: the provider's call returns (it has a
\* timeout), the grace sleep ends, and no step of it waits for another thread
SpecRequest ==
    /\ RequestInit
    /\ [][Next]_vars
    /\ \A w \in Workers : WF_vars(request_run(w))

\* ------------------------------------------------------------------------
\* Properties
\* ------------------------------------------------------------------------
\* the readers that hold a tag
Held == {r \in Readers : reader_active_tags[r] # NoTag}

\* position of reader r among the holding readers, by group index
group_rank(r) ==
    1 + Cardinality({q \in Held : reader_to_group[q] < reader_to_group[r]})

\* the session lists exactly the held tags, by ascending group index
ListsHeldTags ==
    /\ Len(session.figure_rfid_uids) = Cardinality(Held)
    /\ \A r \in Held :
          session.figure_rfid_uids[group_rank(r)] = reader_active_tags[r]

\* thread t leaves label `label` in this step
Leaves(t, label) == pc[t] = label /\ pc'[t] # label

\* C1 as stated: in every reachable state the session's active character
\* list is exactly the held tags in ascending group order.
C1_ListAlwaysHeldTags == ListsHeldTags

\* C1 as the code has it: every time a tag-detected / tag-removed handler
\* that found PREPARING_STORY finishes its refresh, the list is exactly the
\* held tags in ascending group order, whatever the order of arrival; a tag
\* event outside PREPARING_STORY changes the slot only and leaves the list,
\* the session and the state as they were.
C1_TagRefreshListsHeldTags ==
    [][ /\ Leaves("rfid", "commit") => ListsHeldTags'
        /\ (last_event' \in {"tag_detected", "tag_removed"}
              /\ state # "PREPARING_STORY")
             => UNCHANGED <<state, session, pc>> ]_vars

\* C1, reached: two tags held on reader1 (group 2) and reader3 (group 1), listed by group
C1_TwoTagsInGroupOrder ==
    /\ state = "PREPARING_STORY"
    /\ pc["rfid"] = "idle"
    /\ reader_active_tags["reader1"] = 1
    /\ reader_active_tags["reader3"] = 2
    /\ session.figure_rfid_uids = <<2, 1>>

\* C2: request_story reached with an empty active character list leaves the
\* state as it is (PREPARING_STORY stays PREPARING_STORY) and starts no
\* worker, so the story provider is not called.
C2_EmptyRequestStaysPreparing ==
    [][ (Leaves("button", "req") /\ session.figure_rfid_uids = <<>>)
          => /\ state' = state
             /\ \A w \in Workers : pc'[w] = pc[w] ]_vars

\* C2, reached: request_story has just refused a request without figures
C2_RefusedWithoutFigures ==
    /\ prompt = "no_characters"
    /\ state = "PREPARING_STORY"
    /\ session.figure_rfid_uids = <<>>
    /\ \A w \in Workers : pc[w] = "idle"

\* C3: stop_story_and_reset and on_story_finished each leave a session with
\* no figures, no audio path, no timeline path and the duration mode just
\* read from the selector, set IDLE_READY, and go on in the same handler to
\* start_preparing, whose next step sets PREPARING_STORY.
C3_ResetThenPreparing ==
    [][ /\ (Leaves("timer", "stop") \/ Leaves("watcher", "fin"))
             => /\ session' = [figure_rfid_uids |-> <<>>,
                               duration_mode    |-> read_mode(pins'),
                               story_audio_path |-> None,
                               led_pattern_path |-> None]
                /\ state' = "IDLE_READY"
        /\ Leaves("timer", "stop") => pc'["timer"] = "sp"
        /\ Leaves("watcher", "fin") => pc'["watcher"] = "sp"
        /\ \A t \in {"timer", "watcher"} :
             Leaves(t, "sp") => state' = "PREPARING_STORY" /\ pc'[t] = "upf" ]_vars

\* C3, reached: after the long-press reset the handler is back in PREPARING_STORY
\* with an empty session while a tag is still held
C3_ReenteredAfterStop ==
    /\ pc["timer"] = "upf"
    /\ state = "PREPARING_STORY"
    /\ session.figure_rfid_uids = <<>>
    /\ session.story_audio_path = None
    /\ session.led_pattern_path = None
    /\ Held # {}

\* C4 as stated: in every reachable state the session's duration mode is one
\* of short, medium, long.
C4_DurationModeValid == session.duration_mode \in Modes

\* C5 as stated: a handler's state check and the transition it performs are
\* atomic: the pause branch of the press acts in PLAYING_STORY, the long
\* press resets in CONFIRM_STOP, and a refresh writes the list it computed
\* from the slots as they are.
C5_CheckAndActAtomic ==
    [][ /\ Leaves("button", "pause") => state = "PLAYING_STORY"
        /\ Leaves("timer", "stop") => state = "CONFIRM_STOP"
        /\ \A t \in Threads :
             Leaves(t, "commit") => state = "PREPARING_STORY" ]_vars

\* C6 as stated: a story-request completion that finds the controller out of
\* REQUESTING_STORY changes neither the state nor the session and starts no
\* playback.
C6_StaleCompletionDropped ==
    [][ \A w \in Workers :
          ((Leaves(w, "call") \/ Leaves(w, "grace")) /\ state # "REQUESTING_STORY")
            => UNCHANGED <<state, session, is_playing, paused>> ]_vars

\* C7 as stated: no step takes the controller from PLAYING_STORY, PAUSED or
\* CONFIRM_STOP to WAITING_NETWORK.
C7_NoOfflineWhileStory ==
    [][ (state \in {"PLAYING_STORY", "PAUSED", "CONFIRM_STOP"})
          => (state' # "WAITING_NETWORK") ]_vars

\* C8: a short press goes by the state it reads: request_story in
\* PREPARING_STORY, the pause branch in PLAYING_STORY, resume_story in
\* CONFIRM_STOP, and nothing in any other state (state, session and playback
\* unchanged).  The pause branch pauses the playback and sets CONFIRM_STOP;
\* resume_story finding CONFIRM_STOP resumes the playback and sets
\* PLAYING_STORY.
C8_PressByState ==
    [][ /\ last_event' = "click" =>
             /\ state = "PREPARING_STORY" => pc'["button"] = "req"
             /\ state = "PLAYING_STORY" => pc'["button"] = "pause"
             /\ state = "CONFIRM_STOP" => pc'["button"] = "resume"
             /\ state \in {"BOOTING", "WAITING_NETWORK", "IDLE_READY",
                           "REQUESTING_STORY", "PAUSED"}
                  => /\ pc'["button"] = "idle"
                     /\ UNCHANGED <<state, session, is_playing, paused>>
        /\ Leaves("button", "pause") =>
             /\ state' = "CONFIRM_STOP"
             /\ is_playing => paused'
             /\ UNCHANGED <<session, is_playing>>
        /\ (Leaves("button", "resume") /\ state = "CONFIRM_STOP") =>
             /\ state' = "PLAYING_STORY"
             /\ ~paused'
             /\ UNCHANGED <<session, is_playing>> ]_vars

\* C8, reached: the press in PLAYING_STORY has paused the story
C8_PausedToConfirmStop ==
    /\ prompt = "stop_story"
    /\ state = "CONFIRM_STOP"
    /\ is_playing
    /\ paused
    /\ pc["button"] = "idle"

\* C9: a long press starts stop_story_and_reset when it reads CONFIRM_STOP
\* and only then; in every other state it changes neither the state, the
\* session nor the playback.
C9_LongPressOnlyInConfirmStop ==
    [][ /\ last_event' = "long_press" =>
             IF state = "CONFIRM_STOP"
               THEN pc'["timer"] = "stop"
               ELSE /\ pc'["timer"] = "idle"
                    /\ UNCHANGED <<state, session, is_playing, paused>>
        /\ (pc["timer"] # "stop" /\ pc'["timer"] = "stop")
             => (last_event' = "long_press" /\ state = "CONFIRM_STOP")
        /\ Leaves("timer", "stop") => (state' = "IDLE_READY" /\ ~is_playing') ]_vars

\* C9, reached: a long press read CONFIRM_STOP and goes on to stop_story_and_reset
C9_LongPressInConfirmStop ==
    /\ last_event = "long_press"
    /\ pc["timer"] = "stop"
    /\ state = "CONFIRM_STOP"

\* the position the selection works with
clamped_position ==
    IF supplied.ok /\ supplied.value >= 0 THEN supplied.value ELSE 0

\* segment i covers position p: start <= p < end, the end being the explicit
\* one, else the next start, else none
covers(i, p) ==
    /\ segments[i].start <= p
    /\ IF segments[i].duration # NoDuration
         THEN p < segments[i].start + segments[i].duration
         ELSE i < Len(segments) => p < segments[i + 1].start

example_closed ==
    <<[start |-> 0, duration |-> 5000, pattern_id |-> "A"],
      [start |-> 5000, duration |-> 5000, pattern_id |-> "B"]>>

example_open ==
    <<[start |-> 0, duration |-> 5000, pattern_id |-> "A"],
      [start |-> 5000, duration |-> NoDuration, pattern_id |-> "B"]>>

\* C10: once a frame is rendered, the selected segment is the first one that
\* covers the clamped position, if any does, and the first segment when the
\* position is before the first start.  For [0,5)->A, [5,10)->B: 4.999
\* selects A, 5.0 selects B, -1 selects A, and 20 selects B when the last
\* segment is open-ended.
C10_TimelineSelection ==
    segment_index # 0 =>
        LET p   == clamped_position
            hit == {i \in 1..Len(segments) : covers(i, p)}
        IN  /\ segment_index \in 1..Len(segments)
            /\ hit # {} => (segment_index \in hit /\ \A j \in hit : segment_index <= j)
            /\ p < segments[1].start => segment_index = 1
            /\ (segments \in {example_closed, example_open} /\ supplied.ok) =>
                  /\ supplied.value = 4999 => segments[segment_index].pattern_id = "A"
                  /\ supplied.value = 5000 => segments[segment_index].pattern_id = "B"
                  /\ supplied.value = -1000 => segments[segment_index].pattern_id = "A"
            /\ (segments = example_open /\ supplied.ok /\ supplied.value = 20000)
                  => segments[segment_index].pattern_id = "B"

\* C10, reached: position 20 s on the timeline whose last segment is open-ended
C10_OpenEndedLastSelected ==
    /\ segments = example_open
    /\ supplied = [ok |-> TRUE, value |-> 20000]
    /\ segment_index = 2

\* the clamped position lies in no segment and not before the first start
in_no_segment ==
    /\ segment_index # 0
    /\ clamped_position >= segments[1].start
    /\ \A i \in 1..Len(segments) : ~covers(i, clamped_position)

\* C11 as stated: when the position lies in no segment's [start, end) and not
\* before the first start, the frame rendered is the fallback pattern's if one
\* is configured and black otherwise, never a segment's.
C11_NoMatchFallsBack ==
    in_no_segment => frame_source = fallback_or_black

\* a step of the render loop: one frame
is_frame == frames' < frames

\* C14 as stated: an instant flash of duration d >= 0 is finished exactly
\* when the time elapsed since its reset is at least d, so a flash of
\* duration 0 is finished at once.  (Violated: a flash of duration 0 never is.)
C14_FlashFinishedAtDuration ==
    event \in FlashKinds =>
        (is_finished(event_duration, event_elapsed) <=> event_elapsed >= event_duration)

\* C15 as stated: a frame that is output is the event pattern's exactly when
\* an unfinished event pattern is installed, and the background's otherwise.
\* (Violated: a finished event pattern is rendered and output once more
\* before the loop removes it.)
C15_UnfinishedEventElseBackground ==
    [][ (is_frame /\ frame_cmd' = "pixels") =>
            (frame_of' = "event" <=>
                (event # "none" /\ ~is_finished(event_duration, event_elapsed))) ]_vars

C13_GroupsPartitionStrip ==
    (pixel_count >= Len(base_lengths)) =>
        /\ Len(groups) = Len(base_lengths)
        /\ groups[1][1] = 0
        /\ groups[Len(groups)][2] = pixel_count
        /\ \A i \in 1..Len(groups) : groups[i][2] - groups[i][1] >= 1
        /\ \A i \in 1..(Len(groups) - 1) : groups[i + 1][1] = groups[i][2]

\* C13, reached: the lengths [6, 8, 8, 8] laid out on 30 pixels
C13_ExampleLayout ==
    /\ base_lengths = <<6, 8, 8, 8>>
    /\ pixel_count = 30
    /\ groups = << <<0, 6>>, <<6, 14>>, <<14, 22>>, <<22, 30>> >>

\* C12 as stated: once the playback is replaced or stopped, no lighting
\* command of the earlier playback's timings is applied: a sync thread
\* that applies a command belongs to the current playback.
\* (Violated: the thread checks its token under the lock and applies the
\* command after releasing it.)
C12_NoStaleLightingCommand ==
    [][ \A token \in Tokens :
            (sync[token] = "command" /\ sync'[token] # "command") =>
                token = playback_token ]_vars

\* C17 as stated: the finished callback is called at most once per
\* playback, only for the current playback whose media has ended, never
\* for one that was stopped or superseded and never while the playback
\* is paused; the same holds when the watcher decides to call it.
\* (Violated: between the watcher's two sections under the lock a pause
\* is accepted, and between its decision and the call a new playback starts.)
C17_OneFinishedPerNaturalEnd ==
    [][ \A token \in Tokens :
            /\ (watcher[token] = "confirm" /\ watcher'[token] = "notify") =>
                   (token = playback_token /\ music = "ended" /\ ~paused)
            /\ (finished'[token] # finished[token]) =>
                   /\ finished[token] = 0
                   /\ token = playback_token
                   /\ music \notin {"playing", "paused"}
                   /\ ~paused ]_vars

C20_ReplayOnlyWhilePending ==
    [][ /\ (last_event' = "_play_loading_loop") => (\E w \in Workers : pc[w] = "call")
        /\ loops' <= 1 ]_vars

network_ready_received ==
    /\ pc["monitor"] = "probe"
    /\ pc'["monitor"] # "probe"
    /\ last_status # "True"
    /\ last_status' = "True"

\* C21 as stated: connectivity restored in BOOTING or WAITING_NETWORK (there
\* after the hold) sets IDLE_READY and start_preparing follows, which sets
\* PREPARING_STORY; in any other state neither the state nor the session
\* changes.  (Violated: the state is read again after the 4 s hold, and a
\* request worker that ends during the hold has set PLAYING_STORY.)
C21_NetworkReadyStartsPreparing ==
    [][ /\ (network_ready_received /\ state \notin {"BOOTING", "WAITING_NETWORK"}) =>
               (state' = state /\ session' = session /\ pc'["monitor"] = "idle")
        /\ (network_ready_received /\ state = "BOOTING") =>
               (state' = "IDLE_READY" /\ pc'["monitor"] = "sp")
        /\ (network_ready_received /\ state = "WAITING_NETWORK") =>
               pc'["monitor"] = "nr_sleep"
        /\ (pc["monitor"] = "nr_sleep" /\ pc'["monitor"] # "nr_sleep") =>
               (state' = "IDLE_READY" /\ pc'["monitor"] = "sp")
        /\ (pc["monitor"] = "sp" /\ pc'["monitor"] # "sp") =>
               state' = "PREPARING_STORY" ]_vars

\* C22: a tag detected in a state other than PREPARING_STORY changes the
\* slot of one reader and nothing else: not the state, the session or the
\* two pattern slots; no prompt is played and the handler returns.
C22_TagOutsidePreparingSlotOnly ==
    [][ (last_event' = "tag_detected" /\ state # "PREPARING_STORY") =>
            /\ state' = state
            /\ session' = session
            /\ background' = background
            /\ event' = event
            /\ prompt' = "none"
            /\ pc' = pc
            /\ \E r \in Readers :
                  /\ reader_active_tags'[r] \in Tags
                  /\ \A q \in Readers \ {r} :
                        reader_active_tags'[q] = reader_active_tags[q] ]_vars

\* C22, reached: a tag was put on a reader while the story plays
C22_TagStoredWhilePlaying ==
    /\ last_event = "tag_detected"
    /\ state = "PLAYING_STORY"
    /\ pc["rfid"] = "idle"
    /\ \E r \in Readers :
          /\ reader_active_tags[r] # NoTag
          /\ \A i \in 1..Len(session.figure_rfid_uids) :
                session.figure_rfid_uids[i] # reader_active_tags[r]

\* the threads that call start_preparing: the monitor (connectivity
\* restored), the timer (stop-and-reset) and the watcher (story finished)
preparers == {"monitor", "timer", "watcher"}

\* C23 as stated: whenever start_preparing completes, the session's active
\* character list is exactly the tags held at that moment, by ascending
\* group index.  (Violated: the tag reader's thread changes a slot while
\* start_preparing is between reading the slots and writing the list, or
\* the refresh is skipped because another thread has changed the state.)
C23_StartPreparingReplaysSlots ==
    [][ \A t \in preparers :
            (pc[t] \in {"upf", "commit"} /\ pc'[t] = "idle") => ListsHeldTags' ]_vars


\* ------------------------------------------------------------------------
\* The colour of a timeline entry (src/2architecture/services/
\* story_led_timeline.py, _parse_color).  A component is given in tenths.
\* ------------------------------------------------------------------------
\* float(component) raises TypeError or ValueError: null, a missing key, text
Malformed == [parses |-> FALSE, tenths |-> 0]

\* components that convert: -1, 0, 127.5, 128.5, 255 and 300
ComponentTenths == {-10, 0, 1275, 1285, 2550, 3000}

Components == {Malformed} \cup {[parses |-> TRUE, tenths |-> t] : t \in ComponentTenths}

\* an {r, g, b} object, a hex string (with the channels it spells), a list
ColorKinds == {"object", "hex", "list"}

ColorData ==
    {[kind |-> k, components |-> <<r, g, b>>] :
        k \in ColorKinds, r \in Components, g \in Components, b \in Components}
    \cup {[kind |-> "list", components |-> <<r>>] : r \in Components}

\* round(): to the nearest integer, a half to the even one
round(tenths) ==
    LET floor == tenths \div 10
        part == tenths % 10
    IN  IF part < 5 THEN floor
        ELSE IF part > 5 THEN floor + 1
        ELSE IF floor % 2 = 0 THEN floor ELSE floor + 1

\* the body of the loop over the components
normalized(component) ==
    LET value == IF component.parses THEN round(component.tenths) ELSE 0
    IN  max(0, min(255, value))

\* _parse_color: only a dict and a list give a colour; every component is
\* converted, 0 on failure, clamped to 0..255; 0 for each one that is missing
_parse_color ==
    /\ ~color.done
    /\ color_data.kind # "none"
    /\ color' =
         IF color_data.kind \in {"object", "list"}
           THEN [done |-> TRUE, present |-> TRUE,
                 rgb |-> [i \in 1..3 |->
                            IF i <= Len(color_data.components)
                              THEN normalized(color_data.components[i])
                              ELSE 0]]
           ELSE [done |-> TRUE, present |-> FALSE, rgb |-> <<0, 0, 0>>]
    /\ UNCHANGED <<color_data, loader_vars, lock_vars, character_vars, former_vars>>

ColorInit ==
    /\ ControllerInit
    /\ TimelineIdle
    /\ LightingIdle
    /\ GroupsIdle
    /\ PlayerIdle
    /\ SourcesIdle
    /\ MoreIdle
    /\ color_data \in ColorData
    /\ color = NotParsed
    /\ LoaderIdle
    /\ LockIdle
    /\ CharactersIdle

ColorNext == _parse_color

SpecColor == ColorInit /\ [][ColorNext]_vars

\* a component that is a number of 0..255
in_range(component) ==
    /\ component.parses
    /\ component.tenths >= 0
    /\ component.tenths <= 2550

\* the data spells three channels, each of them a number of 0..255
well_formed(data) ==
    /\ Len(data.components) = 3
    /\ \A i \in 1..3 : in_range(data.components[i])

\* C24: an {r, g, b} object, a hex string and a list each yield the RGB
\* triple they spell; a colour with a malformed or out-of-range channel is
\* absent, no value is substituted and none is clamped
C24_ColorParsedOrAbsent ==
    color.done =>
        IF well_formed(color_data)
          THEN /\ color.present
               /\ \A i \in 1..3 : color.rgb[i] = round(color_data.components[i].tenths)
          ELSE ~color.present

\* ------------------------------------------------------------------------
\* Loading the timeline of a story (src/2architecture/services/
\* story_led_timeline.py, load_story_led_timeline) and handing it to the
\* LedController (src/2architecture/main.py, _configure_story_timeline).
\* ------------------------------------------------------------------------
\* most entries of the "audio_led_sync" array
MaxEntries == 2

\* most calls of load_story_led_timeline
MaxLoads == 2

\* entry.get("pattern"): absent, or a name
EntryPatterns == {"absent", "vent", "Flash"}

\* entry.get("start_time"): absent, text that is no number, or a number (ms)
EntryStarts ==
    {[kind |-> "absent", ms |-> 0], [kind |-> "text", ms |-> 0]}
    \cup {[kind |-> "number", ms |-> t] : t \in {-1000, 0, 2000}}

\* entry.get("end_time"): absent, text that is no number, or a number (ms)
EntryEnds ==
    {[kind |-> "absent", ms |-> 0], [kind |-> "text", ms |-> 0],
     [kind |-> "number", ms |-> 1000]}

Entries == [pattern : EntryPatterns, start_time : EntryStarts, end_time : EntryEnds]

\* the file is missing, is no JSON, is JSON but no object (an array, null, a
\* number, text), is an object without an "audio_led_sync" list, or has one
Documents ==
    {[kind |-> k, entries |-> <<>>] :
        k \in {"missing", "undecodable", "not_object", "no_array"}}
    \cup {[kind |-> "array", entries |-> e] :
            e \in UNION {[1..n -> Entries] : n \in 0..MaxEntries}}

\* str.lower
lower(name) == IF name = "Flash" THEN "flash" ELSE name

\* _translate_pattern: the pattern id the translator of the name returns
_translate_pattern(pattern_name) ==
    LET key == lower(pattern_name)
    IN  IF key \in {"bluecycle", "blue_cycle", "vent"} THEN "loading_blue_cycle"
        ELSE IF key \in {"flash", "flashing"} THEN "flash"
        ELSE "story_pulse"

\* the body of the loop over the entries: the segment of an entry that has
\* a pattern and a start float() converts; the start and the end are raised to 0
segment_of(entry) ==
    LET start_value == max(0, entry.start_time.ms)
        end_value == IF entry.end_time.kind = "number"
                       THEN max(0, entry.end_time.ms) ELSE NoEnd
    IN  [start |-> start_value,
         pattern_id |-> _translate_pattern(entry.pattern),
         duration |-> IF end_value # NoEnd
                        THEN max(0, end_value - start_value) ELSE NoDuration,
         end |-> end_value]

\* the loop's two `continue`
skipped(entry) ==
    \/ entry.pattern = "absent"
    \/ entry.start_time.kind # "number"

RECURSIVE collect(_)
\* the loop over the entries: segments, in document order
collect(entries) ==
    IF entries = <<>> THEN <<>>
    ELSE LET before == collect(SubSeq(entries, 1, Len(entries) - 1))
             entry == entries[Len(entries)]
         IN  IF skipped(entry) THEN before ELSE Append(before, segment_of(entry))

\* the mutant of the order: segments of one start are swapped on every second load
ordered_by_load(segs) ==
    IF loads % 2 = 0 THEN sort_by_start(segs)
    ELSE LET s == sort_by_start(segs)
         IN  IF Len(s) = 2 /\ s[1].start = s[2].start THEN <<s[2], s[1]>> ELSE s

\* StoryLedTimeline(segments=...): __post_init__ sorts them by start
timeline_order(segs) == sort_by_start(segs)

\* raw.get("audio_led_sync") raises AttributeError, which nothing catches
load_raises(doc) == doc.kind = "not_object"

\* load_story_led_timeline, when it returns
load_story_led_timeline(doc) ==
    IF doc.kind # "array" THEN NoTimeline
    ELSE LET segs == collect(doc.entries)
         IN  IF segs = <<>> THEN NoTimeline
             ELSE [set |-> TRUE, segments |-> timeline_order(segs)]

\* STATE_PATTERN_MAP.get
STATE_PATTERN_MAP(s) ==
    IF s \in {"BOOTING", "WAITING_NETWORK", "REQUESTING_STORY"} THEN "loading_blue_cycle"
    ELSE IF s = "PREPARING_STORY" THEN "preparing_group_cycle"
    ELSE IF s = "PLAYING_STORY" THEN "story_pulse"
    ELSE None

\* _apply_current_state_locked: the pattern it leaves in _state_pattern;
\* building the ScriptedTimelinePattern may raise
_apply_current_state_locked(s, tl, builds) ==
    IF s = None THEN None
    ELSE IF s = "PLAYING_STORY" /\ tl.set
      THEN IF builds THEN "scripted" ELSE STATE_PATTERN_MAP("PLAYING_STORY")
      ELSE STATE_PATTERN_MAP(s)

\* LedController.set_story_timeline
set_story_timeline(tl, builds) ==
    /\ _story_timeline' = tl
    /\ _state_pattern' =
         IF _current_state = "PLAYING_STORY"
           THEN _apply_current_state_locked(_current_state, tl, builds)
           ELSE _state_pattern

\* StoryBoxController._configure_story_timeline: a timeline that loads is
\* set, together with the time supplier; otherwise the timeline is cleared;
\* an exception of the load leaves the LedController as it was
_configure_story_timeline(builds) ==
    /\ loads < MaxLoads
    /\ load_raised' = load_raises(document)
    /\ IF load_raises(document)
         THEN /\ loaded' = NoTimeline
              /\ UNCHANGED <<_story_timeline, _state_pattern>>
         ELSE LET tl == load_story_led_timeline(document)
              IN  /\ loaded' = tl
                  /\ set_story_timeline(tl, builds)
    /\ earlier' = loaded
    /\ loads' = loads + 1
    /\ UNCHANGED <<document, _current_state, color_vars, lock_vars, character_vars, former_vars>>

\* LedController.clear_story_timeline
clear_story_timeline ==
    /\ _story_timeline.set
    /\ set_story_timeline(NoTimeline, TRUE)
    /\ UNCHANGED <<document, loaded, earlier, load_raised, loads, _current_state,
                   color_vars, lock_vars, character_vars, former_vars>>

\* LedController.apply_state
apply_state(s, builds) ==
    /\ s # _current_state
    /\ _current_state' = s
    /\ _state_pattern' = _apply_current_state_locked(s, _story_timeline, builds)
    /\ UNCHANGED <<document, loaded, earlier, load_raised, loads, _story_timeline,
                   color_vars, lock_vars, character_vars, former_vars>>

\* the controller is constructed: apply_state(BOOTING); a document lies next
\* to the story
LoaderInit ==
    /\ ControllerInit
    /\ TimelineIdle
    /\ LightingIdle
    /\ GroupsIdle
    /\ PlayerIdle
    /\ SourcesIdle
    /\ MoreIdle
    /\ ColorIdle
    /\ LockIdle
    /\ CharactersIdle
    /\ document \in Documents
    /\ loaded = NoTimeline
    /\ earlier = NoTimeline
    /\ load_raised = FALSE
    /\ loads = 0
    /\ _current_state = "BOOTING"
    /\ _story_timeline = NoTimeline
    /\ _state_pattern = STATE_PATTERN_MAP("BOOTING")

LoaderNext ==
    \/ \E builds \in BOOLEAN : _configure_story_timeline(builds)
    \/ clear_story_timeline
    \/ \E s \in StoryBoxState, builds \in BOOLEAN : apply_state(s, builds)

SpecLoader == LoaderInit /\ [][LoaderNext]_vars

\* the entries of the document that have a pattern name and a start that is a number
valid_entries ==
    {i \in 1..Len(document.entries) :
        /\ document.entries[i].pattern # "absent"
        /\ document.entries[i].start_time.kind = "number"}

\* the segments are those of the valid entries, one for each
one_segment_per_valid_entry ==
    \E place \in [valid_entries -> 1..Len(loaded.segments)] :
        /\ \A i, j \in valid_entries : i # j => place[i] # place[j]
        /\ Len(loaded.segments) = Cardinality(valid_entries)
        /\ \A i \in valid_entries :
               LET entry == document.entries[i]
                   seg == loaded.segments[place[i]]
               IN  /\ seg.start = max(0, entry.start_time.ms)
                   /\ seg.pattern_id = _translate_pattern(entry.pattern)

\* C25: a loaded timeline's segments ascend by start whatever the document's
\* order; entries without a pattern name or a valid start are skipped and the
\* others kept; a document without a valid entry gives no timeline, and
\* PLAYING_STORY then shows the pattern of the state
C25_LoadedTimelineSorted ==
    loads > 0 =>
        /\ loaded.set =>
             \A i, j \in 1..Len(loaded.segments) :
                 i < j => loaded.segments[i].start <= loaded.segments[j].start
        /\ loaded.set => one_segment_per_valid_entry
        /\ loaded.set <=> (document.kind = "array" /\ valid_entries # {})
        /\ ~load_raised
        /\ (~_story_timeline.set /\ _current_state = "PLAYING_STORY")
               => _state_pattern = "story_pulse"
        /\ (document.kind # "array" \/ valid_entries = {}) => ~_story_timeline.set

MaxLockCalls == 3

\* the methods that take the lock
LockMethods ==
    {"set_background_pattern", "led_event", "set_group_color",
     "clear_group_color", "clear"}

lock_others == <<color_vars, loader_vars, character_vars, former_vars>>

\* a thread moves on; what else happens is said by the action
goes(t, to) == at' = [at EXCEPT ![t] = to]

\* a method is called on thread t
call(t, m) ==
    /\ lock_calls > 0
    /\ at[t] = "idle"
    /\ lock_calls' = lock_calls - 1
    /\ method' = [method EXCEPT ![t] = m]
    /\ goes(t, "called")
    /\ touched' = Nobody
    /\ output' = Nobody
    /\ UNCHANGED <<_lock, _background_pattern, _event_pattern, selected, lock_others>>

\* `with self._lock:` of a method: entered when the lock is free
enters(t) ==
    /\ at[t] = "called"
    /\ _lock = "free"
    /\ _lock' = t

with_lock(t) ==
    /\ enters(t)
    /\ goes(t, "locked")
    /\ touched' = Nobody
    /\ output' = Nobody
    /\ UNCHANGED <<method, _background_pattern, _event_pattern, selected,
                   lock_calls, lock_others>>

\* the body of the method: set_background_pattern and led_event replace
\* their slot (by a pattern or by None), set_group_color and
\* clear_group_color read the background slot, clear empties both
body(t, pattern) ==
    /\ at[t] = "locked"
    /\ _background_pattern' =
         IF method[t] = "set_background_pattern" THEN pattern
         ELSE IF method[t] = "clear" THEN FALSE
         ELSE _background_pattern
    /\ _event_pattern' =
         IF method[t] = "led_event" THEN pattern
         ELSE IF method[t] = "clear" THEN FALSE
         ELSE _event_pattern
    /\ touched' = [by |-> t, holder |-> _lock]
    /\ output' = Nobody
    /\ goes(t, "done")
    /\ UNCHANGED <<_lock, method, selected, lock_calls, lock_others>>

\* the end of the `with` block of a method
leaves(t) ==
    /\ at[t] = "done"
    /\ _lock' = IF _lock = t THEN "free" ELSE _lock
    /\ goes(t, IF method[t] = "clear" THEN "unlocked" ELSE "idle")
    /\ method' = [method EXCEPT ![t] = IF method[t] = "clear" THEN "clear" ELSE "none"]
    /\ touched' = Nobody
    /\ output' = Nobody
    /\ UNCHANGED <<_background_pattern, _event_pattern, selected,
                   lock_calls, lock_others>>

\* clear: self.led_driver.off(), after the `with` block
clear_off(t) ==
    /\ at[t] = "unlocked"
    /\ output' = [by |-> t, holder |-> _lock]
    /\ touched' = Nobody
    /\ goes(t, "idle")
    /\ method' = [method EXCEPT ![t] = "none"]
    /\ UNCHANGED <<_lock, _background_pattern, _event_pattern, selected,
                   lock_calls, lock_others>>

\* _run_loop: `with self._lock:`
_run_loop_with_lock ==
    /\ at["loop"] = "idle"
    /\ _lock = "free"
    /\ _lock' = "loop"
    /\ goes("loop", "locked")
    /\ touched' = Nobody
    /\ output' = Nobody
    /\ UNCHANGED <<method, _background_pattern, _event_pattern, selected,
                   lock_calls, lock_others>>

\* _run_loop: active_pattern = self._event_pattern or self._background_pattern
_run_loop_select ==
    /\ at["loop"] = "locked"
    /\ selected' =
         IF _event_pattern THEN "event"
         ELSE IF _background_pattern THEN "background" ELSE "none"
    /\ touched' = [by |-> "loop", holder |-> _lock]
    /\ output' = Nobody
    /\ goes("loop", "selected")
    /\ UNCHANGED <<_lock, method, _background_pattern, _event_pattern,
                   lock_calls, lock_others>>

\* _run_loop: colors = active_pattern.render(), inside the `with` block
_run_loop_render ==
    /\ at["loop"] = "selected"
    /\ selected # "none"
    /\ goes("loop", "rendered")
    /\ touched' = Nobody
    /\ output' = Nobody
    /\ UNCHANGED <<_lock, method, _background_pattern, _event_pattern,
                   selected, lock_calls, lock_others>>

\* _run_loop: the event pattern is removed when it is finished, inside the
\* `with` block
_run_loop_expire(ended) ==
    /\ at["loop"] = "rendered"
    /\ _event_pattern' = IF _event_pattern /\ ended THEN FALSE ELSE _event_pattern
    /\ touched' = [by |-> "loop", holder |-> _lock]
    /\ output' = Nobody
    /\ goes("loop", "expired")
    /\ UNCHANGED <<_lock, method, _background_pattern, selected,
                   lock_calls, lock_others>>

\* _run_loop: the end of the `with` block
_run_loop_release ==
    /\ \/ at["loop"] = "expired"
       \/ at["loop"] = "selected" /\ selected = "none"
    /\ _lock' = "free"
    /\ goes("loop", "unlocked")
    /\ touched' = Nobody
    /\ output' = Nobody
    /\ UNCHANGED <<method, _background_pattern, _event_pattern, selected,
                   lock_calls, lock_others>>

\* _run_loop: set_pixels(colors) or off(), then the sleep of the frame
_run_loop_output ==
    /\ at["loop"] = "unlocked"
    /\ output' = [by |-> "loop", holder |-> _lock]
    /\ touched' = Nobody
    /\ goes("loop", "idle")
    /\ UNCHANGED <<_lock, method, _background_pattern, _event_pattern,
                   selected, lock_calls, lock_others>>

LockInit ==
    /\ ControllerInit
    /\ TimelineIdle
    /\ LightingIdle
    /\ GroupsIdle
    /\ PlayerIdle
    /\ SourcesIdle
    /\ MoreIdle
    /\ ColorIdle
    /\ LoaderIdle
    /\ CharactersIdle
    /\ _lock = "free"
    /\ at = [t \in LockThreads |-> "idle"]
    /\ method = [t \in Callers |-> "none"]
    /\ _background_pattern = FALSE
    /\ _event_pattern = FALSE
    /\ selected = "none"
    /\ touched = Nobody
    /\ output = Nobody
    /\ lock_calls = MaxLockCalls

LockNext ==
    \/ \E t \in Callers, m \in LockMethods : call(t, m)
    \/ \E t \in Callers : with_lock(t)
    \/ \E t \in Callers, pattern \in BOOLEAN : body(t, pattern)
    \/ \E t \in Callers : leaves(t)
    \/ \E t \in Callers : clear_off(t)
    \/ _run_loop_with_lock
    \/ _run_loop_select
    \/ _run_loop_render
    \/ \E ended \in BOOLEAN : _run_loop_expire(ended)
    \/ _run_loop_release
    \/ _run_loop_output

SpecLock == LockInit /\ [][LockNext]_vars

\* C27: every read and write of the two pattern slots is made by the holder
\* of the lock; the render loop calls the driver (set_pixels, off) without
\* holding the lock; all the loop does while it holds the lock is select the
\* pattern of the frame
C27_LockOnlyForSelection ==
    [][ /\ touched'.by # "none" => touched'.holder = touched'.by
        /\ output'.by = "loop" => output'.holder # "loop"
        /\ (_lock = "loop" /\ _lock' = "loop" /\ at'["loop"] # at["loop"])
               => at'["loop"] = "selected" ]_vars

\* ------------------------------------------------------------------------
\* The render loop for as long as the process lives: `while not
\* self._stop_event.is_set()` runs a frame every _FRAME_INTERVAL and the
\* clock advances, whatever the controller does.
\* ------------------------------------------------------------------------
\* the durations the controller gives its flashes (main.py: 1.0 s, 4.0 s)
ControllerDurations == 1..MaxDuration

\* _run_loop: a frame whose pattern renders, of a loop that does not end:
\* frames counts the frames of a round of MaxFrames and starts again (the
\* clock and the count of idle frames are followed up to their bounds)
_run_loop_frame(late) ==
    /\ event_elapsed + late <= MaxDuration + 1
    /\ active_pattern # "none" \/ idle_run < MaxFrames
    /\ frame(TRUE, late)
    /\ frames' = IF frames > 1 THEN frames - 1 ELSE MaxFrames

ExpiryNext ==
    \/ \E kind \in BackgroundKinds : set_background_pattern(kind)
    \/ \E kind \in FlashKinds, duration \in ControllerDurations : led_event(kind, duration)
    \/ led_event("breathe_red", NoDuration)
    \/ time_passes
    \/ \E late \in {0, 1} : _run_loop_frame(late)

SpecExpiry ==
    /\ LightingInit
    /\ [][ExpiryNext]_vars
    /\ WF_vars(time_passes)
    /\ WF_vars(\E late \in {0, 1} : _run_loop_frame(late))

\* C28: every event pattern the controller installs (the flashes of the
\* buttons and of the restored connection, the breathing alert of
\* CONFIRM_STOP) is removed from the event slot by the render loop once no
\* further event comes, and the background is rendered again
C28_EventSlotSelfExpiring ==
    (event # "none") ~> (event = "none" /\ frame_of \in {"background", "none"})

\* C29: a frame whose pattern fails to render (render raises, or returns
\* another number of pixels) sends no pixels and leaves the strip dark: "off"
\* is sent when the strip was lit; the slots stay as they were; and the loop
\* goes on, the next frame being rendered from the pattern the slots select
C29_FailedRenderDarkFrame ==
    /\ [][ is_frame =>
             /\ colors' = "failed" =>
                  /\ frame_cmd' = (IF strip_active THEN "off" ELSE "none")
                  /\ ~strip_active'
                  /\ frame_of' = "none"
                  /\ background' = background
                  /\ event' \in {event, "none"}
             /\ colors' = "valid" => (frame_cmd' = "pixels" /\ frame_of' = active_pattern)
       ]_vars
    /\ [](frames > 0 => ENABLED _run_loop(TRUE, 0))

\* a lit strip was switched off by a frame whose pattern failed to render,
\* and the loop has frames to run
C29_FailedFrameSwitchedOff ==
    /\ colors = "failed"
    /\ frame_cmd = "off"
    /\ background # "none"
    /\ frames > 0

\* ------------------------------------------------------------------------
\* Resolving the character of a tag (src/architecture/main.py,
\* _fetch_character_info; src/2architecture/main.py, _character_name).
\* ------------------------------------------------------------------------
\* most resolutions
MaxLookups == 4

\* api_client.get_character returns a CharacterInfo, or None
Answers == {"found", "failed"}

\* StoryBoxController._fetch_character_info (architecture): the provider is
\* asked on every call; its CharacterInfo is returned, else the fallback
_fetch_character_info(tag_id, answer) ==
    /\ variant = "architecture"
    /\ lookups > 0
    /\ lookups' = lookups - 1
    /\ IF ~api_client
         THEN /\ resolved' = [tag |-> tag_id, from |-> "fallback"]
              /\ UNCHANGED <<queried, known>>
         ELSE /\ queried' = [queried EXCEPT ![tag_id] = @ + 1]
              /\ IF answer = "found"
                   THEN /\ resolved' = [tag |-> tag_id, from |-> "provider"]
                        /\ known' = known \cup {tag_id}
                   ELSE /\ resolved' = [tag |-> tag_id, from |-> "fallback"]
                        /\ UNCHANGED known
    /\ UNCHANGED <<variant, api_client, _tag_names, color_vars, loader_vars,
                   lock_vars, former_vars>>

\* StoryBoxController._character_name (2architecture): the cached name if
\* there is one; else the provider is asked, its name cached and returned,
\* else the fallback, which is not cached
_character_name(tag_id, answer) ==
    /\ variant = "2architecture"
    /\ lookups > 0
    /\ lookups' = lookups - 1
    /\ IF _tag_names[tag_id]
         THEN /\ resolved' = [tag |-> tag_id, from |-> "cache"]
              /\ UNCHANGED <<_tag_names, queried, known>>
         ELSE IF ~api_client
           THEN /\ resolved' = [tag |-> tag_id, from |-> "fallback"]
                /\ UNCHANGED <<_tag_names, queried, known>>
           ELSE /\ queried' = [queried EXCEPT ![tag_id] = @ + 1]
                /\ IF answer = "found"
                     THEN /\ resolved' = [tag |-> tag_id, from |-> "provider"]
                          /\ _tag_names' = [_tag_names EXCEPT ![tag_id] = TRUE]
                          /\ known' = known \cup {tag_id}
                     ELSE /\ resolved' = [tag |-> tag_id, from |-> "fallback"]
                          /\ UNCHANGED <<_tag_names, known>>
    /\ UNCHANGED <<variant, api_client, color_vars, loader_vars, lock_vars, former_vars>>

CharactersInit ==
    /\ ControllerInit
    /\ TimelineIdle
    /\ LightingIdle
    /\ GroupsIdle
    /\ PlayerIdle
    /\ SourcesIdle
    /\ MoreIdle
    /\ ColorIdle
    /\ LoaderIdle
    /\ LockIdle
    /\ variant \in {"architecture", "2architecture"}
    /\ api_client \in BOOLEAN
    /\ _tag_names = [t \in Tags |-> FALSE]
    /\ queried = [t \in Tags |-> 0]
    /\ known = {}
    /\ resolved = Unresolved
    /\ lookups = MaxLookups

CharactersNext ==
    \/ \E tag_id \in Tags, answer \in Answers : _fetch_character_info(tag_id, answer)
    \/ \E tag_id \in Tags, answer \in Answers : _character_name(tag_id, answer)

SpecCharacters == CharactersInit /\ [][CharactersNext]_vars

\* C30: a resolution returns the cached character of a tag that was looked
\* up with success before, and asks the provider no more for it; for another
\* tag it asks the provider once and returns its answer, or the fallback when
\* the lookup fails or there is no provider; a failed lookup is not cached,
\* so the next resolution of the tag asks again
C30_ResolutionUsesCache ==
    [][ lookups' < lookups =>
            LET tag_id == resolved'.tag
            IN  IF tag_id \in known
                  THEN /\ queried' = queried
                       /\ resolved'.from = "cache"
                  ELSE /\ api_client => queried'[tag_id] = queried[tag_id] + 1
                       /\ ~api_client => (queried' = queried /\ resolved'.from = "fallback")
                       /\ resolved'.from \in {"provider", "fallback"}
                       /\ resolved'.from = "provider" <=> tag_id \in known' ]_vars

\* ------------------------------------------------------------------------
\* The volume (src/architecture/main.py, on_rotary_rotate;
\* src/architecture/hardware/audio_output.py).  Volumes are in hundredths,
\* the values before rounding in thousandths.
\* ------------------------------------------------------------------------
\* RotaryEncoder: on_rotate(delta), delta = +1 or -1
Deltas == {1, -1}

\* round(x, 2) of a value in thousandths: to the nearest hundredth; a value
\* half-way goes to the neighbour its binary representation is nearer to
round_2(thousandths, up) ==
    LET floor == thousandths \div 10
        part == thousandths % 10
    IN  IF part < 5 THEN floor
        ELSE IF part > 5 THEN floor + 1
        ELSE IF up THEN floor + 1 ELSE floor

\* the mutant of set_volume: the value is rounded but not clamped
set_volume_unclamped(value, up) == round_2(value, up)

\* AudioOutput.set_volume: round(max(0.0, min(1.0, value)), 2)
set_volume(value, up) == round_2(max(0, min(1000, value)), up)

\* StoryBoxController.on_rotary_rotate: volume + delta * 0.015, set_volume
on_rotary_rotate(delta, up) ==
    /\ volume' = set_volume(volume * 10 + delta * 15, up)
    /\ rotated' = [delta |-> delta, from |-> volume]
    /\ UNCHANGED <<controller_vars, beside_volume>>

\* the encoder is turned in whatever state the controller is: at start, and
\* in PREPARING_STORY with a figurine placed
VolumeInit == Init \/ RequestInit

VolumeNext == \E delta \in Deltas, up \in BOOLEAN : on_rotary_rotate(delta, up)

SpecVolume == VolumeInit /\ [][VolumeNext]_vars

\* C31: the volume stays within [0, 1]; a rotation at a bound, towards the
\* bound, leaves it there; a rotation changes neither the state nor the session
C31_VolumeWithinBounds ==
    /\ [](volume >= 0 /\ volume <= 100)
    /\ [][ /\ rotated'.delta = 1 /\ volume = 100 => volume' = 100
           /\ rotated'.delta = -1 /\ volume = 0 => volume' = 0
           /\ rotated'.delta = 1 => volume' >= volume
           /\ rotated'.delta = -1 => volume' <= volume
           /\ state' = state
           /\ session' = session ]_vars

\* the encoder was turned up with the volume at 1.0
C31_TurnedUpAtTop ==
    /\ rotated = [delta |-> 1, from |-> 100]
    /\ volume = 100

\* ------------------------------------------------------------------------
\* The elapsed value of a timeline segment (ScriptedTimelinePattern.render)
\* ------------------------------------------------------------------------
\* the playback position the last render read: clamped, 0 when the supplier failed
position == _current_time(supplied)

\* the segment whose pattern the last render returned
active_segment == segments[active_segment_index]

\* C32: every render that returns a segment's pattern passes it
\* min(position - segment.start, segment.duration), not below 0, from the
\* position read on that frame: a seek back within a segment takes elapsed back
C32_ElapsedFollowsPosition ==
    /\ [](frame_source = "segment" =>
            /\ segment_elapsed >= 0
            /\ segment_elapsed =
                 max(0, IF active_segment.duration = NoDuration
                          THEN position - active_segment.start
                          ELSE min(position - active_segment.start,
                                   active_segment.duration)))
    /\ [][ ( /\ frame_source = "segment"
             /\ frame_source' = "segment"
             /\ active_segment_index' = active_segment_index )
           => /\ position' <= position => segment_elapsed' <= segment_elapsed
              /\ position' >= position => segment_elapsed' >= segment_elapsed ]_vars

\* a segment of duration 3000 is rendered 5000 past its start: elapsed is 3000
C32_ElapsedCappedByDuration ==
    /\ frame_source = "segment"
    /\ active_segment.duration = 3000
    /\ position - active_segment.start = 5000
    /\ segment_elapsed = 3000

\* ------------------------------------------------------------------------
\* LedController.shutdown and the end of the render thread
\* (src/architecture/services/led_controller.py)
\* ------------------------------------------------------------------------
\* frames the render thread starts at most
MaxLoopFrames == 3

\* _run_loop: `while not self._stop_event.is_set()`
_run_loop_test ==
    /\ loop_at = "test"
    /\ _stop_event \/ loop_frames > 0
    /\ loop_at' = IF _stop_event THEN "cleanup" ELSE "frame"
    /\ loop_frames' = IF _stop_event THEN loop_frames ELSE loop_frames - 1
    /\ UNCHANGED <<_stop_event, _strip_active, patterned, pending, shutdown_at,
                   driver, returned_at, beside_shutdown>>

\* _run_loop: the `with` block; render() may fail or return no colors
_run_loop_colors(renders) ==
    /\ loop_at = "frame"
    /\ pending' = IF patterned /\ renders THEN "set_pixels"
                  ELSE IF _strip_active THEN "off" ELSE "nothing"
    /\ loop_at' = "write"
    /\ UNCHANGED <<_stop_event, _strip_active, patterned, shutdown_at, driver,
                   returned_at, loop_frames, beside_shutdown>>

\* _run_loop: set_pixels(colors) or off(), then the sleep of the frame
_run_loop_write ==
    /\ loop_at = "write"
    /\ driver' = IF pending = "nothing" THEN driver ELSE Append(driver, pending)
    /\ _strip_active' = (pending = "set_pixels")
    /\ pending' = "nothing"
    /\ loop_at' = "test"
    /\ UNCHANGED <<_stop_event, patterned, shutdown_at, returned_at, loop_frames,
                   beside_shutdown>>

\* _run_loop: after the while loop, led_driver.off()
_run_loop_cleanup ==
    /\ loop_at = "cleanup"
    /\ driver' = Append(driver, "off")
    /\ _strip_active' = FALSE
    /\ loop_at' = "ended"
    /\ UNCHANGED <<_stop_event, patterned, pending, shutdown_at, returned_at,
                   loop_frames, beside_shutdown>>

\* shutdown: self._stop_event.set()
shutdown_set ==
    /\ shutdown_at = "idle"
    /\ _stop_event' = TRUE
    /\ shutdown_at' = "join"
    /\ UNCHANGED <<_strip_active, patterned, loop_at, pending, driver, returned_at,
                   loop_frames, beside_shutdown>>

\* self._loop_thread.join(timeout=1.5) returns when the thread has ended, or
\* after 1.5 s with a frame still in flight (a render or a driver write that takes
\* that long)
join_returns(timed_out) ==
    \/ loop_at = "ended"
    \/ timed_out /\ loop_at \in {"frame", "write"}

\* shutdown: self._loop_thread.join(timeout=1.5)
shutdown_join(timed_out) ==
    /\ shutdown_at = "join"
    /\ join_returns(timed_out)
    /\ shutdown_at' = "off"
    /\ UNCHANGED <<_stop_event, _strip_active, patterned, loop_at, pending, driver,
                   returned_at, loop_frames, beside_shutdown>>

\* shutdown: self.led_driver.off(), and the return
shutdown_off ==
    /\ shutdown_at = "off"
    /\ driver' = Append(driver, "off")
    /\ returned_at' = Len(driver) + 1
    /\ shutdown_at' = "returned"
    /\ UNCHANGED <<_stop_event, _strip_active, patterned, loop_at, pending,
                   loop_frames, beside_shutdown>>

\* LedController.__init__ has started the render thread; a pattern may have
\* been set
ShutdownInit ==
    /\ ControllerInit
    /\ TimelineIdle
    /\ LightingIdle
    /\ GroupsIdle
    /\ PlayerIdle
    /\ SourcesIdle
    /\ ColorIdle
    /\ LoaderIdle
    /\ LockIdle
    /\ CharactersIdle
    /\ VolumeIdle
    /\ ButtonIdle
    /\ _stop_event = FALSE
    /\ _strip_active = FALSE
    /\ patterned \in BOOLEAN
    /\ loop_at = "test"
    /\ pending = "nothing"
    /\ shutdown_at = "idle"
    /\ driver = <<>>
    /\ returned_at = NotReturned
    /\ loop_frames = MaxLoopFrames

ShutdownNext ==
    \/ _run_loop_test
    \/ \E renders \in BOOLEAN : _run_loop_colors(renders)
    \/ _run_loop_write
    \/ _run_loop_cleanup
    \/ shutdown_set
    \/ \E timed_out \in BOOLEAN : shutdown_join(timed_out)
    \/ shutdown_off

SpecShutdown == ShutdownInit /\ [][ShutdownNext]_vars

\* C33: once shutdown() has returned, the last command the driver received is
\* all-off, and the render thread has sent no lit frame after the off of
\* shutdown()
C33_ShutdownLeavesStripOff ==
    shutdown_at = "returned" =>
        /\ driver[Len(driver)] = "off"
        /\ \A i \in (returned_at + 1)..Len(driver) : driver[i] # "set_pixels"

\* ------------------------------------------------------------------------
\* The default story of a failed request (request_story.run)
\* ------------------------------------------------------------------------
\* C34: when the story request failed and the default story file is started,
\* the session has the default audio and no timeline path
C34_DefaultStoryWithoutTimeline ==
    [][ \A w \in Workers :
          ( /\ pc[w] = "call"
            /\ pc'[w] = "idle"
            /\ session'.story_audio_path = "default_audio" )
          => /\ state' = "PLAYING_STORY"
             /\ session'.led_pattern_path = None ]_vars

\* ------------------------------------------------------------------------
\* The duration selector's event (on_duration_change)
\* ------------------------------------------------------------------------
\* the selector thread delivered duration-changed(mode): it read a mode other
\* than the last one, and not an unknown one
duration_changed == last_mode' # last_mode /\ last_mode' # "unknown"

\* C35: in every state a duration-changed(mode) event stores the mode in the
\* session, plays the prompt named after the mode and no other, and leaves the
\* state as it is
C35_DurationChangeInEveryState ==
    [][ duration_changed =>
          /\ session'.duration_mode = last_mode'
          /\ prompt' = last_mode'
          /\ state' = state ]_vars

\* ------------------------------------------------------------------------
\* The feedback of PREPARING_STORY (start_preparing,
\* _update_preparing_feedback, LedController.set_group_color)
\* ------------------------------------------------------------------------
\* no handler is between its first and its last statement
no_handler_running == \A t \in Threads : pc[t] = "idle"

\* LedController.set_group_color / clear_group_color act only on a background
\* pattern that has the method: GroupCyclePattern alone
has_group_colors(pattern) == pattern = "group_cycle"

\* C36: whenever the controller is in PREPARING_STORY and no handler is
\* running, the background is the group-partitioned pattern, so that the
\* group of every reader that holds a tag can carry its colour; this for every
\* way of entering PREPARING_STORY, the return from a failed request included
C36_PreparingShowsGroups ==
    (state = "PREPARING_STORY" /\ no_handler_running) =>
        /\ background = "group_cycle"
        /\ \A r \in Held : has_group_colors(background)

\* ------------------------------------------------------------------------
\* The controller's state and the audio player's flags
\* ------------------------------------------------------------------------
\* the watcher has cleared the player's flags and is about to call
\* on_story_finished
finishing == pc["watcher"] = "fin"

\* C37: in PLAYING_STORY the player is playing and not paused, in
\* CONFIRM_STOP it is playing and paused; the controller is in neither state
\* with no playback in progress (the moment between the end of the media and
\* the handler of the finished notification apart)
C37_StateMatchesPlayback ==
    ~finishing =>
        /\ state = "PLAYING_STORY" => (is_playing /\ ~paused)
        /\ state = "CONFIRM_STOP" => (is_playing /\ paused)

\* ------------------------------------------------------------------------
\* The story-request workers
\* ------------------------------------------------------------------------
\* the worker threads of request_story whose request is not resolved: they
\* wait for the provider, or sleep before start_story
in_flight == {w \in Workers : pc[w] \in {"call", "grace"}}

\* C38: at most one story-request worker is in flight at any time
C38_OneWorkerInFlight == Cardinality(in_flight) <= 1

\* ------------------------------------------------------------------------
\* The play/pause button (src/architecture/hardware/buttons.py): the polling
\* thread and the thread of the long-press timer, statement by statement
\* ------------------------------------------------------------------------
\* the press the button is in, or was in last (0 before the first)
pressed == MaxPresses - presses

\* the child presses the button, once the polling thread has handled the
\* last release
button_down ==
    /\ presses > 0
    /\ pin_level = "HIGH"
    /\ last_state = "HIGH"
    /\ poll_at = "poll"
    /\ pin_level' = "LOW"
    /\ presses' = presses - 1
    /\ UNCHANGED <<last_state, poll_at, timer_at, _long_press_triggered,
                   short_presses, long_presses, beside_button>>

\* the child lets go of the button, once the polling thread has seen it down
button_up ==
    /\ pin_level = "LOW"
    /\ last_state = "LOW"
    /\ pin_level' = "HIGH"
    /\ UNCHANGED <<last_state, poll_at, timer_at, _long_press_triggered,
                   short_presses, long_presses, presses, beside_button>>

\* run, falling edge: the flag is cleared and a new timer started
run_pressed ==
    /\ poll_at = "poll"
    /\ pin_level = "LOW"
    /\ last_state = "HIGH"
    /\ _long_press_triggered' = FALSE
    /\ timer_at' = [timer_at EXCEPT ![pressed] = "waiting"]
    /\ last_state' = "LOW"
    /\ UNCHANGED <<pin_level, poll_at, short_presses, long_presses, presses,
                   beside_button>>

\* run, rising edge: self._long_press_timer.cancel(), which stops a timer that
\* still waits and does nothing to one whose function has begun
run_released_cancel ==
    /\ poll_at = "poll"
    /\ pin_level = "HIGH"
    /\ last_state = "LOW"
    /\ timer_at' = [timer_at EXCEPT ![pressed] =
                       IF @ = "waiting" THEN "cancelled" ELSE @]
    /\ poll_at' = "cancelled"
    /\ UNCHANGED <<pin_level, last_state, _long_press_triggered, short_presses,
                   long_presses, presses, beside_button>>

\* run, rising edge: `if not self._long_press_triggered`
short_press_due(triggered) == ~triggered

\* run, rising edge: on_short_press() unless the long press has triggered
run_released_short ==
    /\ poll_at = "cancelled"
    /\ short_presses' = [short_presses EXCEPT ![pressed] =
                            IF short_press_due(_long_press_triggered) THEN @ + 1 ELSE @]
    /\ poll_at' = "reset"
    /\ UNCHANGED <<pin_level, last_state, timer_at, _long_press_triggered,
                   long_presses, presses, beside_button>>

\* run, rising edge: the flag is cleared; the debounce sleep, last_state = current
run_released_reset ==
    /\ poll_at = "reset"
    /\ _long_press_triggered' = FALSE
    /\ last_state' = "HIGH"
    /\ poll_at' = "poll"
    /\ UNCHANGED <<pin_level, timer_at, short_presses, long_presses, presses,
                   beside_button>>

\* threading.Timer of press k: long_press_duration has passed and the timer
\* is not cancelled; its thread calls _on_long_press_callback
timer_fires(k) ==
    /\ timer_at[k] = "waiting"
    /\ timer_at' = [timer_at EXCEPT ![k] = "callback"]
    /\ UNCHANGED <<pin_level, last_state, poll_at, _long_press_triggered,
                   short_presses, long_presses, presses, beside_button>>

\* _on_long_press_callback: self._long_press_triggered = True
_on_long_press_callback_flag(k) ==
    /\ timer_at[k] = "callback"
    /\ _long_press_triggered' = TRUE
    /\ timer_at' = [timer_at EXCEPT ![k] = "flagged"]
    /\ UNCHANGED <<pin_level, last_state, poll_at, short_presses, long_presses,
                   presses, beside_button>>

\* _on_long_press_callback: self.on_long_press()
_on_long_press_callback_call(k) ==
    /\ timer_at[k] = "flagged"
    /\ long_presses' = [long_presses EXCEPT ![k] = @ + 1]
    /\ timer_at' = [timer_at EXCEPT ![k] = "done"]
    /\ UNCHANGED <<pin_level, last_state, poll_at, _long_press_triggered,
                   short_presses, presses, beside_button>>

\* PlayPauseButton.start: the button is up, no timer exists
ButtonInit ==
    /\ ControllerInit
    /\ TimelineIdle
    /\ LightingIdle
    /\ GroupsIdle
    /\ PlayerIdle
    /\ SourcesIdle
    /\ ColorIdle
    /\ LoaderIdle
    /\ LockIdle
    /\ CharactersIdle
    /\ VolumeIdle
    /\ ShutdownIdle
    /\ pin_level = "HIGH"
    /\ last_state = "HIGH"
    /\ poll_at = "poll"
    /\ timer_at = NoTimers
    /\ _long_press_triggered = FALSE
    /\ short_presses = NoCalls
    /\ long_presses = NoCalls
    /\ presses = MaxPresses

ButtonNext ==
    \/ button_down
    \/ button_up
    \/ run_pressed
    \/ run_released_cancel
    \/ run_released_short
    \/ run_released_reset
    \/ \E k \in Presses : timer_fires(k)
    \/ \E k \in Presses : _on_long_press_callback_flag(k)
    \/ \E k \in Presses : _on_long_press_callback_call(k)

SpecButton == ButtonInit /\ [][ButtonNext]_vars

\* press k is over: the button was released, the polling thread has handled
\* the release and the timer's thread has ended
press_handled(k) ==
    /\ k <= pressed
    /\ k = pressed => (pin_level = "HIGH" /\ last_state = "HIGH" /\ poll_at = "poll")
    /\ timer_at[k] \in {"cancelled", "done"}

\* C39: for each press and release of the button one of on_short_press and
\* on_long_press is called, never both and never neither, however the
\* timer's thread and the polling thread interleave
C39_ShortOrLongPress ==
    \A k \in Presses :
        /\ short_presses[k] + long_presses[k] <= 1
        /\ press_handled(k) => short_presses[k] + long_presses[k] = 1

\* ------------------------------------------------------------------------
\* The states of the play/pause-button controller
\* ------------------------------------------------------------------------
\* C40: the controller is never in PAUSED: its state is always one of the
\* other seven
C40_PausedUnreachable ==
    /\ state # "PAUSED"
    /\ state \in StoryBoxState \ {"PAUSED"}

\* the button was clicked while the story played: the player is paused and
\* the controller is in CONFIRM_STOP
C40_PausedIntoConfirmStop ==
    /\ state = "CONFIRM_STOP"
    /\ is_playing
    /\ paused
    /\ pc["button"] = "idle"
====
